---- MODULE Spec2Model ----
(***************************************************************************)
(* Garden layout, bed registry, position store and plant list of the      *)
(* garden-guardian-mate web application.                                   *)
(*                                                                         *)
(* Units.  Lengths (bed width/height, bed x/y, garden width/height) are    *)
(* kept in pixels of the rendered grid, one metre being CellPx pixels, so  *)
(* that 0.5 m, 0.25 m ... are integers.  Areas (spaceRequired) are kept in *)
(* square pixels.  Harvest weights are kept in tenths of a kilogram.       *)
(* Fractional plant coordinates are exact rationals [n, d].                *)
(*                                                                         *)
(* React.  A handler reads the state of the last render (its closure, c)   *)
(* and queues updates; updates queued by all handlers of one DOM event     *)
(* (bubbling included) are applied together.  A handler is therefore an    *)
(* operator from (closure state c, pending state s, arguments) to the new  *)
(* pending state, and an action commits the result of the whole event.     *)
(***************************************************************************)
EXTENDS Integers, Sequences, FiniteSets, TLC

\* ------------------------------------------------------------------ bounds
MaxBeds == 2
MaxPlants == 4
MaxTicks == 2
MaxQuantity == 2
MaxReports == 2
MaxHarvest == 30

\* ------------------------------------------------------- program constants
CellPx == 60
GardenOffsetX == 40
GardenOffsetY == 80
BedMinWidthPx == 80
BedMinHeightPx == 60
WrapColumn == 8
ChipHalfWidthPx == 32
ChipHalfHeightPx == 24
ContainerInsetPx == 26
BedTopPx == 40

null == "null"
undefined == "undefined"

Max(a, b) == IF a >= b THEN a ELSE b
Min(a, b) == IF a <= b THEN a ELSE b

\* n metres in model length units; n square metres in model area units
M(n) == n * CellPx
M2(n) == n * CellPx * CellPx

\* Math.round(px / 60), the result again in model length units:
\* Math.round rounds halves towards +infinity, i.e. floor(v + 1/2)
MathRoundCells(px) == CellPx * ((2 * px + CellPx) \div (2 * CellPx))

RECURSIVE GCD(_, _)
GCD(a, b) == IF b = 0 THEN a ELSE GCD(b, a % b)

Abs(a) == IF a < 0 THEN 0 - a ELSE a

\* the number n / d (d > 0) as a canonical rational
Frac(n, d) ==
    LET g == GCD(Abs(n), d)
    IN  [n |-> n \div g, d |-> d \div g]

\* list.find(e => e.id === id): index of the first such element, 0 if none
FindIndex(seq, id) ==
    IF \E i \in 1..Len(seq) : seq[i].id = id
    THEN CHOOSE i \in 1..Len(seq) :
            seq[i].id = id /\ \A j \in 1..(i - 1) : seq[j].id # id
    ELSE 0

\* new Date().toISOString() and its date part, for the clock value t
ISODate(t) == "2026-11-" \o ToString(10 + (t \div 2))
ISOString(t) == ISODate(t) \o "T" \o ToString(t)

\* -------------------------------------------------------------------- state
VARIABLES
    now,                 \* Date.now(), the millisecond clock
    tab,                 \* active tab of the main page: "cards" | "layout"
    plants,              \* Index: plants
    beds,                \* GardenLayout: beds (Bed Registry)
    plantPositions,      \* GardenLayout: plantPositions (Position Store)
    selectedPlant,
    selectedBed,
    placementMode,
    gardenWidth,
    gardenHeight,
    editingBedId,
    editingPlantId,
    duplicateDialogOpen,
    plantToDuplicate,    \* <<>> for null, <<plant>> otherwise
    duplicateName,
    draggedPlantId,
    editingBedName,
    editingPlantName,
    showBoundaries,
    currentSeason,       \* Index: currentSeason
    seasonReports,       \* Index: seasonReports
    localStorage,        \* window.localStorage, by key
    quotaExceeded,       \* localStorage.setItem throws
    uncaughtError,       \* an exception has left a handler uncaught
    last                 \* history: the last event handled and its inputs

vars == <<now, tab, plants, beds, plantPositions, selectedPlant, selectedBed,
          placementMode, gardenWidth, gardenHeight, editingBedId,
          editingPlantId, duplicateDialogOpen, plantToDuplicate,
          duplicateName, draggedPlantId, editingBedName, editingPlantName,
          showBoundaries, currentSeason, seasonReports, localStorage,
          quotaExceeded, uncaughtError, last>>

\* the state one render of Index and of GardenLayout closes over, with the
\* store and its quota as the handlers find them
Closure ==
    [plants |-> plants, beds |-> beds, plantPositions |-> plantPositions,
     selectedPlant |-> selectedPlant, selectedBed |-> selectedBed,
     placementMode |-> placementMode, gardenWidth |-> gardenWidth,
     gardenHeight |-> gardenHeight, editingBedId |-> editingBedId,
     editingPlantId |-> editingPlantId,
     duplicateDialogOpen |-> duplicateDialogOpen,
     plantToDuplicate |-> plantToDuplicate, duplicateName |-> duplicateName,
     draggedPlantId |-> draggedPlantId, editingBedName |-> editingBedName,
     editingPlantName |-> editingPlantName, showBoundaries |-> showBoundaries,
     currentSeason |-> currentSeason, seasonReports |-> seasonReports,
     localStorage |-> localStorage, quotaExceeded |-> quotaExceeded,
     uncaughtError |-> uncaughtError]

Commit(s) ==
    /\ plants' = s.plants
    /\ beds' = s.beds
    /\ plantPositions' = s.plantPositions
    /\ selectedPlant' = s.selectedPlant
    /\ selectedBed' = s.selectedBed
    /\ placementMode' = s.placementMode
    /\ gardenWidth' = s.gardenWidth
    /\ gardenHeight' = s.gardenHeight
    /\ editingBedId' = s.editingBedId
    /\ editingPlantId' = s.editingPlantId
    /\ duplicateDialogOpen' = s.duplicateDialogOpen
    /\ plantToDuplicate' = s.plantToDuplicate
    /\ duplicateName' = s.duplicateName
    /\ draggedPlantId' = s.draggedPlantId
    /\ editingBedName' = s.editingBedName
    /\ editingPlantName' = s.editingPlantName
    /\ showBoundaries' = s.showBoundaries
    /\ currentSeason' = s.currentSeason
    /\ seasonReports' = s.seasonReports
    /\ localStorage' = s.localStorage
    /\ quotaExceeded' = s.quotaExceeded
    /\ uncaughtError' = s.uncaughtError

\* at: the pointer of a bed placement, <<offX, offY>> from the garden rect;
\* pos: the fractions <<x, y>> of a plant placement; form: <<formData>> of a
\* bed form submission; <<>> when there is none
NoEvent ==
    [op |-> "init", plantId |-> null, bedId |-> null, at |-> <<>>,
     pos |-> <<>>, form |-> <<>>]

\* -------------------------------------------------------------- initial data
DefaultPlants ==
    << [id |-> "1", name |-> "Cherry Tomatoes", type |-> "Vegetable",
        plantedDate |-> "2024-07-15", lastWatered |-> "2024-08-02",
        lastFertilized |-> "2024-07-20", status |-> "needs-care",
        location |-> "Garden Bed A", totalHarvest |-> 25,
        lastHarvest |-> "2024-07-30", spaceRequired |-> M2(3) \div 2,
        comments |-> <<>>],
       [id |-> "2", name |-> "Basil", type |-> "Herb",
        plantedDate |-> "2024-07-20", lastWatered |-> "2024-08-04",
        lastFertilized |-> "2024-07-25", status |-> "healthy",
        location |-> "Herb Planter", totalHarvest |-> 3,
        lastHarvest |-> undefined, spaceRequired |-> M2(1) \div 2,
        comments |-> <<>>] >>

DefaultBeds ==
    << [id |-> "bed-1", name |-> "Main Vegetable Bed", width |-> M(3),
        height |-> M(2), x |-> M(1), y |-> M(1), type |-> "raised"],
       [id |-> "bed-2", name |-> "Herb Garden", width |-> M(1),
        height |-> M(1), x |-> M(5), y |-> M(1), type |-> "container"] >>

DefaultSettings == [width |-> M(10), height |-> M(8), showBoundaries |-> TRUE]

DefaultSeason == "2024 Season"

\* ------------------------------------------------------------ localStorage
\* An item of the store is <<>> when the key is missing (getItem gives null)
\* and <<text>> otherwise.  A JSON text is [ok, doc]: ok tells whether
\* JSON.parse accepts it, doc is the document it denotes, a sequence of
\* objects whose properties are tagged with their JSON type.  Properties
\* holding undefined are left out by JSON.stringify and read as undefined
\* after JSON.parse.  The names of the seasons are the keys of the
\* per-season items.
SeasonNames == {"2024 Season", "2025 Season"}

NoItem == <<>>

JSONtext(doc) == <<[ok |-> TRUE, doc |-> doc]>>

MalformedItem == <<[ok |-> FALSE, doc |-> <<>>]>>

JSONnumber(v) == [t |-> "number", v |-> v]
JSONstring(v) == [t |-> "string", v |-> v]
JSONboolean(v) == [t |-> "boolean", v |-> v]
JSONarray(v) == [t |-> "array", v |-> v]

\* JSON.stringify(beds) / JSON.parse of it
stringifyBeds(list) ==
    [i \in 1..Len(list) |->
        [id |-> JSONstring(list[i].id), name |-> JSONstring(list[i].name),
         width |-> JSONnumber(list[i].width),
         height |-> JSONnumber(list[i].height),
         x |-> JSONnumber(list[i].x), y |-> JSONnumber(list[i].y),
         type |-> JSONstring(list[i].type)]]

parseBeds(doc) ==
    [i \in 1..Len(doc) |->
        [id |-> doc[i].id.v, name |-> doc[i].name.v, width |-> doc[i].width.v,
         height |-> doc[i].height.v, x |-> doc[i].x.v, y |-> doc[i].y.v,
         type |-> doc[i].type.v]]

\* JSON.stringify(plantPositions) / JSON.parse of it
stringifyPositions(list) ==
    [i \in 1..Len(list) |->
        [plantId |-> JSONstring(list[i].plantId),
         bedId |-> JSONstring(list[i].bedId),
         x |-> JSONnumber(list[i].x), y |-> JSONnumber(list[i].y)]]

parsePositions(doc) ==
    [i \in 1..Len(doc) |->
        [plantId |-> doc[i].plantId.v, bedId |-> doc[i].bedId.v,
         x |-> doc[i].x.v, y |-> doc[i].y.v]]

\* JSON.stringify(settings) / JSON.parse of it
stringifySettings(settings) ==
    << [width |-> JSONnumber(settings.width),
        height |-> JSONnumber(settings.height),
        showBoundaries |-> JSONboolean(settings.showBoundaries)] >>

parseSettings(doc) ==
    [width |-> doc[1].width.v, height |-> doc[1].height.v,
     showBoundaries |-> doc[1].showBoundaries.v]

\* JSON.stringify(plants) / JSON.parse of it; lastHarvest is optional
stringifyPlant(plant) ==
    LET always ==
            [id |-> JSONstring(plant.id), name |-> JSONstring(plant.name),
             type |-> JSONstring(plant.type),
             plantedDate |-> JSONstring(plant.plantedDate),
             lastWatered |-> JSONstring(plant.lastWatered),
             lastFertilized |-> JSONstring(plant.lastFertilized),
             status |-> JSONstring(plant.status),
             location |-> JSONstring(plant.location),
             totalHarvest |-> JSONnumber(plant.totalHarvest),
             spaceRequired |-> JSONnumber(plant.spaceRequired),
             comments |-> JSONarray(plant.comments)]
    IN  IF plant.lastHarvest = undefined
        THEN always
        ELSE [f \in DOMAIN always \cup {"lastHarvest"} |->
                 IF f = "lastHarvest" THEN JSONstring(plant.lastHarvest)
                 ELSE always[f]]

stringifyPlants(list) == [i \in 1..Len(list) |-> stringifyPlant(list[i])]

parsePlant(obj) ==
    [id |-> obj.id.v, name |-> obj.name.v, type |-> obj.type.v,
     plantedDate |-> obj.plantedDate.v, lastWatered |-> obj.lastWatered.v,
     lastFertilized |-> obj.lastFertilized.v, status |-> obj.status.v,
     location |-> obj.location.v, totalHarvest |-> obj.totalHarvest.v,
     lastHarvest |-> IF "lastHarvest" \in DOMAIN obj THEN obj.lastHarvest.v
                     ELSE undefined,
     spaceRequired |-> obj.spaceRequired.v, comments |-> obj.comments.v]

parsePlants(doc) == [i \in 1..Len(doc) |-> parsePlant(doc[i])]

\* JSON.stringify(seasonReports)
stringifyReports(list) ==
    [i \in 1..Len(list) |->
        [id |-> JSONstring(list[i].id),
         seasonName |-> JSONstring(list[i].seasonName),
         startDate |-> JSONstring(list[i].startDate),
         endDate |-> JSONstring(list[i].endDate),
         plants |-> JSONarray(stringifyPlants(list[i].plants)),
         totalHarvest |-> JSONnumber(list[i].totalHarvest),
         createdAt |-> JSONstring(list[i].createdAt)]]

\* JSON.parse of the stored season reports
parseReports(doc) ==
    [i \in 1..Len(doc) |->
        [id |-> doc[i].id.v, seasonName |-> doc[i].seasonName.v,
         startDate |-> doc[i].startDate.v, endDate |-> doc[i].endDate.v,
         plants |-> parsePlants(doc[i].plants.v),
         totalHarvest |-> doc[i].totalHarvest.v,
         createdAt |-> doc[i].createdAt.v]]

\* GardenLayout.tsx getCurrentSeason
getCurrentSeason(store) ==
    IF store.season = NoItem \/ store.season = <<"">> THEN DefaultSeason
    ELSE store.season[1]

\* loadGardenDataFromStorage with an empty saved list taken as missing
loadGardenDataFromStorage_EmptyIsMissing(store) ==
    LET savedBeds == store.beds
        savedPositions == store.positions[getCurrentSeason(store)]
        savedSettings == store.settings
    IN  IF \/ savedBeds # NoItem /\ ~savedBeds[1].ok
           \/ savedPositions # NoItem /\ ~savedPositions[1].ok
           \/ savedSettings # NoItem /\ ~savedSettings[1].ok
        THEN [beds |-> DefaultBeds, positions |-> <<>>,
              settings |-> DefaultSettings]
        ELSE [beds |-> IF savedBeds # NoItem /\ savedBeds[1].doc # <<>>
                       THEN parseBeds(savedBeds[1].doc) ELSE DefaultBeds,
              positions |-> IF savedPositions # NoItem
                            THEN parsePositions(savedPositions[1].doc)
                            ELSE <<>>,
              settings |-> IF savedSettings # NoItem
                           THEN parseSettings(savedSettings[1].doc)
                           ELSE DefaultSettings]

\* loadGardenDataFromStorage whose catch block gives the empty bed list
loadGardenDataFromStorage_EmptyOnError(store) ==
    LET savedBeds == store.beds
        savedPositions == store.positions[getCurrentSeason(store)]
        savedSettings == store.settings
    IN  IF \/ savedBeds # NoItem /\ ~savedBeds[1].ok
           \/ savedPositions # NoItem /\ ~savedPositions[1].ok
           \/ savedSettings # NoItem /\ ~savedSettings[1].ok
        THEN [beds |-> <<>>, positions |-> <<>>,
              settings |-> DefaultSettings]
        ELSE [beds |-> IF savedBeds # NoItem
                       THEN parseBeds(savedBeds[1].doc) ELSE DefaultBeds,
              positions |-> IF savedPositions # NoItem
                            THEN parsePositions(savedPositions[1].doc)
                            ELSE <<>>,
              settings |-> IF savedSettings # NoItem
                           THEN parseSettings(savedSettings[1].doc)
                           ELSE DefaultSettings]

\* loadGardenDataFromStorage: one try block around the three reads; any
\* JSON.parse that throws gives the defaults of all three collections
loadGardenDataFromStorage(store) ==
    LET savedBeds == store.beds
        savedPositions == store.positions[getCurrentSeason(store)]
        savedSettings == store.settings
    IN  IF \/ savedBeds # NoItem /\ ~savedBeds[1].ok
           \/ savedPositions # NoItem /\ ~savedPositions[1].ok
           \/ savedSettings # NoItem /\ ~savedSettings[1].ok
        THEN [beds |-> DefaultBeds, positions |-> <<>>,
              settings |-> DefaultSettings]
        ELSE [beds |-> IF savedBeds # NoItem
                       THEN parseBeds(savedBeds[1].doc) ELSE DefaultBeds,
              positions |-> IF savedPositions # NoItem
                            THEN parsePositions(savedPositions[1].doc)
                            ELSE <<>>,
              settings |-> IF savedSettings # NoItem
                           THEN parseSettings(savedSettings[1].doc)
                           ELSE DefaultSettings]

\* Index.loadPlantsFromStorage for the season of the render
loadPlantsFromStorage(store, season) ==
    LET savedPlants == store.plants[season]
    IN  IF savedPlants # NoItem /\ savedPlants[1].ok
        THEN parsePlants(savedPlants[1].doc)
        ELSE DefaultPlants

\* what getItem and JSON.parse make of an item
ItemKind(item) ==
    IF item = NoItem THEN "missing"
    ELSE IF item[1].ok THEN "stored" ELSE "malformed"

\* the effects of GardenLayout after a render with state s, c being the
\* state of the render before; first is TRUE for the render of the mount
LayoutEffects(c, s, first) ==
    LET store == s.localStorage
        season == getCurrentSeason(store)
        saveBeds == first \/ s.beds # c.beds
        savePositions == first \/ s.plantPositions # c.plantPositions
        saveSettings == \/ first
                        \/ s.gardenWidth # c.gardenWidth
                        \/ s.gardenHeight # c.gardenHeight
                        \/ s.showBoundaries # c.showBoundaries
        st1 == IF saveBeds
               THEN [store EXCEPT !.beds = JSONtext(stringifyBeds(s.beds))]
               ELSE store
        st2 == IF savePositions
               THEN [st1 EXCEPT !.positions[season] =
                        JSONtext(stringifyPositions(s.plantPositions))]
               ELSE st1
        st3 == IF saveSettings
               THEN [st2 EXCEPT !.settings =
                        JSONtext(stringifySettings(
                            [width |-> s.gardenWidth,
                             height |-> s.gardenHeight,
                             showBoundaries |-> s.showBoundaries]))]
               ELSE st2
    IN  IF s.quotaExceeded THEN s ELSE [s EXCEPT !.localStorage = st3]

\* the effects of Index after a render with state s: the load of the
\* season's plants runs before the save, which runs again for the render
\* the load causes
IndexEffects(c, s) ==
    LET seasonChanged == s.currentSeason # c.currentSeason
        loaded == IF seasonChanged
                  THEN loadPlantsFromStorage(s.localStorage, s.currentSeason)
                  ELSE s.plants
        st1 == IF seasonChanged \/ s.plants # c.plants
               THEN [s.localStorage EXCEPT !.plants[s.currentSeason] =
                        JSONtext(stringifyPlants(loaded))]
               ELSE s.localStorage
        st2 == IF s.seasonReports # c.seasonReports
               THEN [st1 EXCEPT !.reports =
                        JSONtext(stringifyReports(s.seasonReports))]
               ELSE st1
    IN  [s EXCEPT !.plants = loaded,
                  !.localStorage = IF s.quotaExceeded THEN @ ELSE st2]

\* Index from its first render to the render after which no effect queues
\* an update.  The first render has the season "2024 Season", no plant and
\* no report; its effects, in the order of the source, queue the stored
\* season and reports, queue the plants stored for "2024 Season", and write
\* the empty plant list under 'garden-plants-2024 Season' and the empty
\* list under 'season-reports'.  The effects of the next render are those
\* of any render of Index
mountIndex(c) ==
    LET store == c.localStorage
        first == [c EXCEPT !.currentSeason = DefaultSeason, !.plants = <<>>,
                           !.seasonReports = <<>>]
        saved == [store EXCEPT !.plants[DefaultSeason] = JSONtext(<<>>),
                               !.reports = JSONtext(<<>>)]
        rendered == [first EXCEPT
                        !.localStorage = IF c.quotaExceeded THEN @ ELSE saved]
        queued ==
            [rendered EXCEPT
                !.currentSeason =
                    IF store.season = NoItem \/ store.season = <<"">>
                    THEN DefaultSeason ELSE store.season[1],
                !.seasonReports =
                    IF store.reports # NoItem /\ store.reports[1].ok
                    THEN parseReports(store.reports[1].doc) ELSE <<>>,
                !.plants = loadPlantsFromStorage(store, DefaultSeason)]
    IN  IndexEffects(rendered, queued)

\* the store after the first visit of the page with nothing stored: Index
\* has saved the default plants and the empty list of reports
InitialStorage ==
    [beds |-> NoItem, settings |-> NoItem, season |-> NoItem,
     reports |-> JSONtext(<<>>),
     plants |-> [n \in SeasonNames |->
                    IF n = DefaultSeason
                    THEN JSONtext(stringifyPlants(DefaultPlants))
                    ELSE NoItem],
     positions |-> [n \in SeasonNames |-> NoItem]]

Init ==
    /\ now = 1000
    /\ tab = "cards"
    /\ plants = DefaultPlants
    /\ beds = DefaultBeds
    /\ plantPositions = <<>>
    /\ selectedPlant = null
    /\ selectedBed = null
    /\ placementMode = null
    /\ gardenWidth = DefaultSettings.width
    /\ gardenHeight = DefaultSettings.height
    /\ editingBedId = null
    /\ editingPlantId = null
    /\ duplicateDialogOpen = FALSE
    /\ plantToDuplicate = <<>>
    /\ duplicateName = ""
    /\ draggedPlantId = null
    /\ editingBedName = ""
    /\ editingPlantName = ""
    /\ showBoundaries = DefaultSettings.showBoundaries
    /\ currentSeason = DefaultSeason
    /\ seasonReports = <<>>
    /\ quotaExceeded = FALSE
    /\ uncaughtError = FALSE
    /\ localStorage = InitialStorage
    /\ last = NoEvent

\* ------------------------------------------------- derived lists of a render
\* GardenLayout.tsx: unplacedPlants, unplacedBeds, placedBeds
unplacedPlants(c) ==
    SelectSeq(c.plants, LAMBDA plant :
        ~\E i \in 1..Len(c.plantPositions) :
            c.plantPositions[i].plantId = plant.id)

unplacedBeds(c) == SelectSeq(c.beds, LAMBDA bed : bed.x = M(-1) /\ bed.y = M(-1))

placedBeds(c) == SelectSeq(c.beds, LAMBDA bed : bed.x # M(-1) /\ bed.y # M(-1))

Ids(seq) == {seq[i].id : i \in 1..Len(seq)}

\* ------------------------------------------------- GardenLayout: handlers
\* addBed: the coordinates of newBed are overwritten by the sentinel
addBed(s, newBed, t, rnd) ==
    LET bed == [id |-> "bed-" \o ToString(t) \o "-" \o rnd,
                name |-> newBed.name, width |-> newBed.width,
                height |-> newBed.height, type |-> newBed.type,
                x |-> M(-1), y |-> M(-1)]
    IN  [s EXCEPT !.beds = Append(s.beds, bed)]

\* removeBed without the cascade to the Position Store
removeBed_KeepPositions(s, bedId) ==
    [s EXCEPT !.beds = SelectSeq(s.beds, LAMBDA bed : bed.id # bedId)]

\* removeBed with the cascade comparing the wrong field of a position
removeBed_FilterByPlantId(s, bedId) ==
    [s EXCEPT !.beds = SelectSeq(s.beds, LAMBDA bed : bed.id # bedId),
              !.plantPositions =
                  SelectSeq(s.plantPositions, LAMBDA pos : pos.plantId # bedId)]

removeBed(s, bedId) ==
    [s EXCEPT !.beds = SelectSeq(s.beds, LAMBDA bed : bed.id # bedId),
              !.plantPositions =
                  SelectSeq(s.plantPositions, LAMBDA pos : pos.bedId # bedId)]

\* handlePlantDrop without the removal of the plant's earlier position
handlePlantDrop_AppendOnly(s, plantId, bedId, x, y) ==
    [s EXCEPT !.plantPositions =
        Append(s.plantPositions,
               [plantId |-> plantId, bedId |-> bedId, x |-> x, y |-> y])]

handlePlantDrop(s, plantId, bedId, x, y) ==
    LET filtered == SelectSeq(s.plantPositions,
                              LAMBDA pos : pos.plantId # plantId)
    IN  [s EXCEPT !.plantPositions =
            Append(filtered,
                   [plantId |-> plantId, bedId |-> bedId, x |-> x, y |-> y])]

handleBedDrag(s, bedId, newX, newY) ==
    [s EXCEPT !.beds =
        [i \in 1..Len(s.beds) |->
            IF s.beds[i].id = bedId
            THEN [s.beds[i] EXCEPT !.x = Max(0, newX), !.y = Max(0, newY)]
            ELSE s.beds[i]]]

\* handlePlantSelect without setSelectedBed(null)
handlePlantSelect_KeepsBed(c, s, plantId) ==
    IF c.editingPlantId = plantId THEN s
    ELSE [s EXCEPT
            !.selectedPlant = IF c.selectedPlant = plantId THEN null ELSE plantId,
            !.placementMode = IF c.selectedPlant = plantId THEN null ELSE "plant"]

handlePlantSelect(c, s, plantId) ==
    IF c.editingPlantId = plantId THEN s
    ELSE [s EXCEPT
            !.selectedPlant = IF c.selectedPlant = plantId THEN null ELSE plantId,
            !.selectedBed = null,
            !.placementMode = IF c.selectedPlant = plantId THEN null ELSE "plant"]

handleBedSelect(c, s, bedId) ==
    IF c.editingBedId = bedId THEN s
    ELSE [s EXCEPT
            !.selectedBed = IF c.selectedBed = bedId THEN null ELSE bedId,
            !.selectedPlant = null,
            !.placementMode = IF c.selectedBed = bedId THEN null ELSE "bed"]

\* the grid coordinate without the clamp against the far edge of the garden
ClampedCoord_NoMaxClamp(px, bedSize, gardenSize) ==
    Max(0, MathRoundCells(px))

\* the clamped grid coordinate handed to handleBedDrag for a pointer at
\* px pixels from the canvas origin, a bed of size bedSize on that axis and
\* a garden of size gardenSize on that axis
ClampedCoord(px, bedSize, gardenSize) ==
    LET newC == Max(0, MathRoundCells(px))
        maxC == Max(0, gardenSize - bedSize)
    IN  Min(newC, maxC)

\* handleGardenClick; (offX, offY) is (clientX - rect.left, clientY - rect.top)
handleGardenClick(c, s, offX, offY) ==
    IF c.selectedBed = null \/ c.placementMode # "bed" THEN s
    ELSE
        LET k == FindIndex(c.beds, c.selectedBed)
            placed ==
                IF k = 0 THEN s
                ELSE handleBedDrag(s, c.selectedBed,
                        ClampedCoord(offX - GardenOffsetX, c.beds[k].width,
                                     c.gardenWidth),
                        ClampedCoord(offY - GardenOffsetY, c.beds[k].height,
                                     c.gardenHeight))
        IN  [placed EXCEPT !.selectedBed = null, !.placementMode = null]

\* getBoundingClientRect() of a rendered placed bed (style width/height with
\* minWidth/minHeight)
BedRectWidth(bed) == Max(bed.width, BedMinWidthPx)
BedRectHeight(bed) == Max(bed.height, BedMinHeightPx)

\* handleBedClick; (offX, offY) is the pointer relative to the bed's rect
handleBedClick(c, s, bedId, offX, offY, rectW, rectH) ==
    IF c.selectedPlant = null \/ c.placementMode # "plant" THEN s
    ELSE
        LET dropped == handlePlantDrop(s, c.selectedPlant, bedId,
                                       Frac(offX, rectW), Frac(offY, rectH))
        IN  [dropped EXCEPT !.selectedPlant = null, !.placementMode = null]

clearSelection(s) ==
    [s EXCEPT !.selectedPlant = null, !.selectedBed = null,
              !.placementMode = null]

\* handleRemoveZoneDrop emptying the Position Store
handleRemoveZoneDrop_ClearsAll(s, data) ==
    IF data.action = "remove" /\ data.plantId # ""
    THEN [s EXCEPT !.plantPositions = <<>>, !.draggedPlantId = null]
    ELSE s

handleRemoveZoneDrop(s, data) ==
    IF data.action = "remove" /\ data.plantId # ""
    THEN [s EXCEPT
            !.plantPositions = SelectSeq(s.plantPositions,
                                   LAMBDA pos : pos.plantId # data.plantId),
            !.draggedPlantId = null]
    ELSE s

\* ---------------------------- GardenLayout, drag-and-drop / touch variant
\* handleTouchEnd; touchData is the gesture under way, below describes
\* document.elementFromPoint at the release point: whether it lies in the
\* garden container (and where, relative to the container), and the bed
\* whose subtree it lies in (and where, relative to that bed's rect)
handleTouchEnd(c, s, touchData, below) ==
    IF ~touchData.isDragging THEN s
    ELSE IF touchData.dragType = "bed" /\ touchData.dragId # null
    THEN IF below.inGarden
         THEN LET k == FindIndex(c.beds, touchData.dragId)
              IN  IF k = 0 THEN s
                  ELSE handleBedDrag(s, touchData.dragId,
                          ClampedCoord(below.gardenOff[1] - GardenOffsetX,
                                       c.beds[k].width, c.gardenWidth),
                          ClampedCoord(below.gardenOff[2] - GardenOffsetY,
                                       c.beds[k].height, c.gardenHeight))
         ELSE s
    ELSE IF touchData.dragType = "plant" /\ touchData.dragId # null
    THEN IF below.bedId # null
         THEN handlePlantDrop(s, touchData.dragId, below.bedId,
                              Frac(below.bedOff[1], below.rectW),
                              Frac(below.bedOff[2], below.rectH))
         ELSE s
    ELSE s

\* the dataTransfer of a drag: bed is the bed id of a "bed-" text/plain
\* payload (null when text/plain is no such payload), plantId the
\* application/plant-id payload ("" when none); the onDragStart of a chip
\* bubbles to the onDragStart of its bed, which overwrites text/plain
badgeDragData(plantId) == [bed |-> null, plantId |-> plantId]
chipDragData(plantId, bedId) == [bed |-> bedId, plantId |-> plantId]
bedDragData(bedId) == [bed |-> bedId, plantId |-> ""]

\* onDrop of the garden container
gardenContainerDrop(c, s, data, draggedBed, offX, offY) ==
    IF data.bed # null /\ draggedBed # null
    THEN LET k == FindIndex(c.beds, data.bed)
         IN  IF k = 0 THEN s
             ELSE handleBedDrag(s, data.bed,
                     ClampedCoord(offX - GardenOffsetX, c.beds[k].width,
                                  c.gardenWidth),
                     ClampedCoord(offY - GardenOffsetY, c.beds[k].height,
                                  c.gardenHeight))
    ELSE s

\* onDrop of a placed bed (stopPropagation)
bedDrop(s, bed, data, draggedPlant, offX, offY, rectW, rectH) ==
    IF data.bed = null /\ draggedPlant # null
    THEN handlePlantDrop(s, data.plantId, bed.id, Frac(offX, rectW),
                         Frac(offY, rectH))
    ELSE s

\* the plants drawn as chips inside placed beds
chipPlants(c) ==
    {c.plantPositions[i].plantId : i \in
        {j \in 1..Len(c.plantPositions) :
            /\ c.plantPositions[j].bedId \in Ids(placedBeds(c))
            /\ c.plantPositions[j].plantId \in Ids(c.plants)}}

\* a pointer at (offX, offY) relative to the rect of bed hits the bed's
\* subtree: the rect itself, or the chip of a plant placed in the bed (a
\* chip is centred on its position and may hang over the bed's edge)
InBedSubtree(c, bed, offX, offY) ==
    LET rectW == BedRectWidth(bed)
        rectH == BedRectHeight(bed)
    IN  \/ /\ offX >= 0 /\ offX < rectW
           /\ offY >= 0 /\ offY < rectH
        \/ \E i \in 1..Len(c.plantPositions) :
              LET pos == c.plantPositions[i]
              IN  /\ pos.bedId = bed.id
                  /\ pos.plantId \in Ids(c.plants)
                  /\ Abs(offX * pos.x.d - pos.x.n * rectW)
                        <= ChipHalfWidthPx * pos.x.d
                  /\ Abs(offY * pos.y.d - pos.y.n * rectH)
                        <= ChipHalfHeightPx * pos.y.d

\* Array.prototype.reduce((sum, item) => sum + item, 0)
RECURSIVE SumSeq(_)
SumSeq(seq) ==
    IF seq = <<>> THEN 0 ELSE Head(seq) + SumSeq(Tail(seq))

\* plants.find(p => p.id === id), as an index into plants (0: undefined)
findPlant(plantList, id) == FindIndex(plantList, id)

\* the capacity figures with the bed flagged overcrowded when exactly full
bedCapacity_OvercrowdedWhenFull(c, bed) ==
    LET bedPlants ==
            SelectSeq(SelectSeq(c.plantPositions,
                                LAMBDA pos : pos.bedId = bed.id),
                      LAMBDA pos : findPlant(c.plants, pos.plantId) # 0)
        spaceOf(pos) == c.plants[findPlant(c.plants, pos.plantId)].spaceRequired
        totalUsedSpace == SumSeq([i \in 1..Len(bedPlants) |-> spaceOf(bedPlants[i])])
        totalSpace == bed.width * bed.height
    IN  [totalUsedSpace |-> totalUsedSpace, totalSpace |-> totalSpace,
         isOvercrowded |-> totalUsedSpace >= totalSpace]

\* GardenLayout, placedBeds.map: bedPlants, totalUsedSpace, totalSpace and
\* isOvercrowded of one placed bed
bedCapacity(c, bed) ==
    LET bedPlants ==
            SelectSeq(SelectSeq(c.plantPositions,
                                LAMBDA pos : pos.bedId = bed.id),
                      LAMBDA pos : findPlant(c.plants, pos.plantId) # 0)
        spaceOf(pos) == c.plants[findPlant(c.plants, pos.plantId)].spaceRequired
        totalUsedSpace == SumSeq([i \in 1..Len(bedPlants) |-> spaceOf(bedPlants[i])])
        totalSpace == bed.width * bed.height
    IN  [totalUsedSpace |-> totalUsedSpace, totalSpace |-> totalSpace,
         isOvercrowded |-> totalUsedSpace > totalSpace]

\* Stats, stats.bedUtilization: the entry of one bed, computed from the
\* plants, beds and positions the page loads; utilized is a percentage
bedUtilization(c, bed) ==
    LET plantsInBeds ==
            SelectSeq(c.plantPositions,
                      LAMBDA pos : findPlant(c.plants, pos.plantId) # 0)
        bedPlants == SelectSeq(plantsInBeds, LAMBDA pos : pos.bedId = bed.id)
        spaceOf(pos) == c.plants[findPlant(c.plants, pos.plantId)].spaceRequired
        usedSpace == SumSeq([i \in 1..Len(bedPlants) |-> spaceOf(bedPlants[i])])
        totalSpace == bed.width * bed.height
    IN  [name |-> bed.name,
         utilized |-> IF totalSpace > 0
                      THEN Frac(usedSpace * 100, totalSpace)
                      ELSE Frac(0, 1),
         plants |-> Len(bedPlants),
         usedSpace |-> usedSpace,
         totalSpace |-> totalSpace]


\* a / b of two non-negative numbers as JavaScript computes it: a canonical
\* rational when b is not 0; NaN ([n |-> 0, d |-> 0]) for 0 / 0 and Infinity
\* ([n |-> 1, d |-> 0]) for a / 0 with a > 0.  NaN * 100 is NaN and
\* Infinity * 100 is Infinity
Divide(a, b) ==
    IF b # 0 THEN Frac(a, b)
    ELSE IF a = 0 THEN [n |-> 0, d |-> 0] ELSE [n |-> 1, d |-> 0]

\* GardenBedManager: the plants whose location text is the id of the bed
getPlantsByBed(c, bedId) ==
    SelectSeq(c.plants, LAMBDA plant : plant.location = bedId)

\* GardenBedManager, the card of one bed: usedSpace, totalSpace and the
\* percentage (usedSpace / totalSpace) * 100
getBedUtilization(c, bed) ==
    LET plantsInBed == getPlantsByBed(c, bed.id)
        usedSpace ==
            SumSeq([i \in 1..Len(plantsInBed) |-> plantsInBed[i].spaceRequired])
        totalSpace == bed.width * bed.height
        quotient == Divide(usedSpace, totalSpace)
    IN  [usedSpace |-> usedSpace, totalSpace |-> totalSpace,
         percentage |-> IF quotient.d = 0 THEN quotient
                        ELSE Frac(quotient.n * 100, quotient.d)]

\* String.prototype.trim on the texts the inputs of the model can hold
trim(text) ==
    CASE text = " " -> ""
      [] text = " Basil 2 " -> "Basil 2"
      [] OTHER -> text

\* ----------------------------------------------- GardenLayout: inline rename
startEditingBed(s, bedId, currentName) ==
    [s EXCEPT !.editingBedId = bedId, !.editingBedName = currentName]

saveBedName(c, s) ==
    LET renamed ==
            IF c.editingBedId # null /\ trim(c.editingBedName) # ""
            THEN [s EXCEPT !.beds =
                     [i \in 1..Len(s.beds) |->
                         IF s.beds[i].id = c.editingBedId
                         THEN [s.beds[i] EXCEPT
                                  !.name = trim(c.editingBedName)]
                         ELSE s.beds[i]]]
            ELSE s
    IN  [renamed EXCEPT !.editingBedId = null, !.editingBedName = ""]

startEditingPlant(s, plantId, currentName) ==
    [s EXCEPT !.editingPlantId = plantId, !.editingPlantName = currentName]

\* Index.updatePlant for updates = {name}
updatePlant(s, plantId, name) ==
    [s EXCEPT !.plants =
        [i \in 1..Len(s.plants) |->
            IF s.plants[i].id = plantId
            THEN [s.plants[i] EXCEPT !.name = name]
            ELSE s.plants[i]]]

\* savePlantName, onUpdatePlant being Index.updatePlant
savePlantName(c, s) ==
    LET renamed ==
            IF c.editingPlantId # null /\ trim(c.editingPlantName) # ""
            THEN updatePlant(s, c.editingPlantId, trim(c.editingPlantName))
            ELSE s
    IN  [renamed EXCEPT !.editingPlantId = null, !.editingPlantName = ""]

handleDuplicatePlant(s, plant) ==
    [s EXCEPT !.plantToDuplicate = <<plant>>,
              !.duplicateName = plant.name \o " Copy",
              !.duplicateDialogOpen = TRUE]

\* ------------------------------------------------------- Index: handlers
addPlant(s, newPlant, t) ==
    LET plant == [id |-> ToString(t), name |-> newPlant.name,
                  type |-> newPlant.type, plantedDate |-> newPlant.plantedDate,
                  lastWatered |-> newPlant.lastWatered,
                  lastFertilized |-> newPlant.lastFertilized,
                  status |-> newPlant.status, location |-> newPlant.location,
                  lastHarvest |-> undefined,
                  spaceRequired |-> newPlant.spaceRequired,
                  totalHarvest |-> 0, comments |-> <<>>]
    IN  [s EXCEPT !.plants = Append(s.plants, plant)]

\* deletePlant; confirmed is the answer of window.confirm
deletePlant(c, s, id, confirmed) ==
    IF FindIndex(c.plants, id) # 0 /\ confirmed
    THEN [s EXCEPT !.plants = SelectSeq(s.plants, LAMBDA p : p.id # id)]
    ELSE s

\* duplicatePlant without the reset of the harvest total
duplicatePlant_KeepsHarvest(s, originalPlant, newName, t) ==
    LET duplicatedPlant ==
            [originalPlant EXCEPT !.id = ToString(t),
                                  !.name = newName,
                                  !.plantedDate = ISODate(t),
                                  !.lastHarvest = undefined,
                                  !.comments = <<>>]
    IN  [s EXCEPT !.plants = Append(s.plants, duplicatedPlant)]

duplicatePlant(s, originalPlant, newName, t) ==
    LET duplicatedPlant ==
            [originalPlant EXCEPT !.id = ToString(t),
                                  !.name = newName,
                                  !.plantedDate = ISODate(t),
                                  !.totalHarvest = 0,
                                  !.lastHarvest = undefined,
                                  !.comments = <<>>]
    IN  [s EXCEPT !.plants = Append(s.plants, duplicatedPlant)]

\* GardenLayout.submitDuplication, onDuplicatePlant being Index.duplicatePlant
submitDuplication(c, s, t) ==
    IF c.plantToDuplicate # <<>> /\ trim(c.duplicateName) # ""
    THEN LET dup == duplicatePlant(s, c.plantToDuplicate[1],
                                   trim(c.duplicateName), t)
         IN  [dup EXCEPT !.duplicateDialogOpen = FALSE,
                         !.plantToDuplicate = <<>>,
                         !.duplicateName = ""]
    ELSE s

\* the order of the plantedDate strings of the model under the < of strings
DateRank(d) ==
    CASE d = "2024-07-15" -> 1
      [] d = "2024-07-20" -> 2
      [] OTHER -> 3 + (CHOOSE t \in 1000..(1000 + MaxTicks) : ISODate(t) = d)

\* plants.reduce(... plant.plantedDate < earliest ...), plants not empty
EarliestPlantedDate(list) ==
    CHOOSE d \in {list[i].plantedDate : i \in 1..Len(list)} :
        \A i \in 1..Len(list) : DateRank(d) <= DateRank(list[i].plantedDate)

\* the report createNewGarden builds for the season that ends
currentReport(c, t) ==
    [id |-> ToString(t), seasonName |-> c.currentSeason,
     startDate |-> EarliestPlantedDate(c.plants), endDate |-> ISOString(t),
     plants |-> c.plants,
     totalHarvest |-> SumSeq([i \in 1..Len(c.plants) |->
                                 c.plants[i].totalHarvest]),
     createdAt |-> ISOString(t)]

\* createNewGarden naming the report after the season that begins
createNewGarden_ReportsNewSeason(c, s, seasonName, t) ==
    LET reported ==
            IF Len(c.plants) > 0
            THEN [s EXCEPT !.seasonReports =
                     Append(@, [currentReport(c, t) EXCEPT
                                   !.seasonName = seasonName])]
            ELSE s
    IN  [reported EXCEPT
            !.currentSeason = seasonName,
            !.localStorage.season = <<seasonName>>,
            !.plants = <<>>,
            !.localStorage.positions =
                [[@ EXCEPT ![c.currentSeason] = NoItem]
                    EXCEPT ![seasonName] = JSONtext(<<>>)]]

\* createNewGarden; the write of 'current-season' is outside any try block:
\* when it throws, the updates queued before it stay queued and the rest of
\* the handler does not run
createNewGarden(c, s, seasonName, t) ==
    LET reported ==
            IF Len(c.plants) > 0
            THEN [s EXCEPT !.seasonReports = Append(@, currentReport(c, t))]
            ELSE s
        renamed == [reported EXCEPT !.currentSeason = seasonName]
    IN  IF s.quotaExceeded
        THEN [renamed EXCEPT !.uncaughtError = TRUE]
        ELSE [renamed EXCEPT
                !.localStorage.season = <<seasonName>>,
                !.plants = <<>>,
                !.localStorage.positions =
                    [[@ EXCEPT ![c.currentSeason] = NoItem]
                        EXCEPT ![seasonName] = JSONtext(<<>>)]]

\* Index.harvestPlant; amount in tenths of a kilogram
harvestPlant(s, id, amount, t) ==
    [s EXCEPT !.plants =
        [i \in 1..Len(s.plants) |->
            IF s.plants[i].id = id
            THEN [s.plants[i] EXCEPT !.totalHarvest = @ + amount,
                                     !.lastHarvest = ISOString(t)]
            ELSE s.plants[i]]]

\* the harvest button of a plant card and the click on the chip of a placed
\* plant: answer is what prompt returns ([cancelled, empty, nan, num], num
\* being Number(amount) in tenths of a kilogram); amount && !isNaN(...)
promptHarvest(s, id, answer, t) ==
    IF ~answer.cancelled /\ ~answer.empty /\ ~answer.nan
    THEN harvestPlant(s, id, answer.num, t)
    ELSE s

\* ------------------------------------------- GardenBedManager.handleSubmit

\* the start cell taken without the scan
NextAvailable_NoScan(existingPositions, x, y) == <<x, y>>

\* the while loop: first cell from (x, y) on, row-major with wrap after
\* column WrapColumn, that is not in existingPositions
RECURSIVE NextAvailable(_, _, _)
NextAvailable(existingPositions, x, y) ==
    IF <<M(x), M(y)>> \in existingPositions
    THEN IF x + 1 > WrapColumn
         THEN NextAvailable(existingPositions, 0, y + 1)
         ELSE NextAvailable(existingPositions, x + 1, y)
    ELSE <<x, y>>

\* the for loop from iteration i on; rnds[i] is the random id suffix of the
\* i-th onAddBed call; the result is <<state, cells passed to onAddBed>>
RECURSIVE SubmitLoop(_, _, _, _, _, _, _, _, _)
SubmitLoop(s, formData, quantity, i, existingPositions, startX, startY, t, rnds) ==
    IF i >= quantity THEN <<s, <<>>>>
    ELSE
        LET cell == NextAvailable(existingPositions, startX, startY)
            x == cell[1]
            y == cell[2]
            bedName == IF quantity > 1
                       THEN formData.name \o " " \o ToString(i + 1)
                       ELSE formData.name
            added == addBed(s, [name |-> bedName, width |-> formData.width,
                                height |-> formData.height,
                                type |-> formData.type,
                                x |-> M(x), y |-> M(y)], t, rnds[i + 1])
            rest == SubmitLoop(added, formData, quantity, i + 1,
                               existingPositions \cup {<<M(x), M(y)>>},
                               IF x + 1 > WrapColumn THEN 0 ELSE x + 1,
                               IF x + 1 > WrapColumn THEN y + 1 ELSE startY,
                               t, rnds)
        IN  <<rest[1], <<cell>> \o rest[2]>>

handleSubmit(c, s, formData, t, rnds) ==
    IF formData.name = "" \/ formData.width = 0 \/ formData.height = 0
    THEN <<s, <<>>>>
    ELSE
        LET quantity == IF formData.useBulkMode THEN formData.quantity ELSE 1
            existingPositions ==
                {<<c.beds[i].x, c.beds[i].y>> : i \in 1..Len(c.beds)}
        IN  SubmitLoop(s, formData, quantity, 0, existingPositions, 0, 0,
                       t, rnds)

\* garden-width / garden-height input, onChange: value is the typed text as
\* parseFloat sees it ([empty, nan, num])
gardenSizeChange(old, value) ==
    IF value.empty THEN M(1)
    ELSE IF ~value.nan /\ value.num >= M(1) /\ value.num <= M(50)
         THEN value.num
         ELSE old


\* the text of a size input at rest: the value attribute rendered from the
\* state, String(size), which parseFloat reads back as the same number
sizeInputValue(size) == [empty |-> FALSE, nan |-> FALSE, num |-> size]

\* onBlur without the clamp to 50
gardenSizeBlur_NoUpperClamp(old, value) ==
    IF value.empty \/ value.nan \/ value.num < M(1) THEN M(1) ELSE old

\* garden-width / garden-height input, onBlur: parseFloat of the empty text
\* is NaN
gardenSizeBlur(old, value) ==
    IF value.empty \/ value.nan \/ value.num < M(1) THEN M(1)
    ELSE IF value.num > M(50) THEN M(50)
    ELSE old

\* ------------------------------------------------------------------ events
\* every action is one DOM event (or one clock tick); it runs the handlers
\* of the event against the closure of the last render and commits
Event(s, ev) ==
    /\ Commit(IndexEffects(Closure, IF tab = "layout"
                                    THEN LayoutEffects(Closure, s, FALSE)
                                    ELSE s))
    /\ last' = ev
    /\ UNCHANGED <<now, tab>>

\* the layout is mounted, no modal dialog is open and no drag is under way
UiFree ==
    /\ tab = "layout"
    /\ ~duplicateDialogOpen
    /\ draggedPlantId = null

Tick ==
    /\ now < 1000 + MaxTicks
    /\ now' = now + 1
    /\ last' = [NoEvent EXCEPT !.op = "tick"]
    /\ UNCHANGED <<tab, plants, beds, plantPositions, selectedPlant,
                   selectedBed, placementMode, gardenWidth, gardenHeight,
                   editingBedId, editingPlantId, duplicateDialogOpen,
                   plantToDuplicate, duplicateName, draggedPlantId,
                   editingBedName, editingPlantName, showBoundaries,
                   currentSeason, seasonReports, localStorage,
                   quotaExceeded, uncaughtError>>

\* main page tab change: GardenLayout is unmounted / mounted; on mount it
\* loads beds, positions and settings from the store, its effects save them,
\* and it starts with fresh selection, editing, dialog and drag state
SwitchTab ==
    /\ ~duplicateDialogOpen
    /\ draggedPlantId = null
    /\ tab' = IF tab = "cards" THEN "layout" ELSE "cards"
    /\ LET data == loadGardenDataFromStorage(localStorage)
           mount == [Closure EXCEPT
                        !.beds = data.beds,
                        !.plantPositions = data.positions,
                        !.gardenWidth = data.settings.width,
                        !.gardenHeight = data.settings.height,
                        !.showBoundaries = data.settings.showBoundaries]
           s == IF tab = "cards" THEN LayoutEffects(Closure, mount, TRUE)
                ELSE Closure
       IN  /\ beds' = s.beds
           /\ plantPositions' = s.plantPositions
           /\ gardenWidth' = s.gardenWidth
           /\ gardenHeight' = s.gardenHeight
           /\ showBoundaries' = s.showBoundaries
           /\ localStorage' = s.localStorage
    /\ editingBedName' = ""
    /\ editingPlantName' = ""
    /\ selectedPlant' = null
    /\ selectedBed' = null
    /\ placementMode' = null
    /\ editingBedId' = null
    /\ editingPlantId' = null
    /\ duplicateDialogOpen' = FALSE
    /\ plantToDuplicate' = <<>>
    /\ duplicateName' = ""
    /\ draggedPlantId' = null
    /\ last' = [NoEvent EXCEPT
                   !.op = "switchTab",
                   !.form = IF tab = "cards"
                            THEN <<ItemKind(localStorage.beds),
                                   ItemKind(localStorage.positions[
                                       getCurrentSeason(localStorage)]),
                                   ItemKind(localStorage.settings)>>
                            ELSE <<>>]
    /\ UNCHANGED <<now, plants, currentSeason, seasonReports, quotaExceeded,
                   uncaughtError>>

AddPlantSubmit(newPlant) ==
    /\ ~duplicateDialogOpen
    /\ draggedPlantId = null
    /\ Len(plants) < MaxPlants
    /\ Event(addPlant(Closure, newPlant, now),
             [NoEvent EXCEPT !.op = "addPlant", !.plantId = ToString(now)])

DeletePlantClick(id, confirmed) ==
    /\ tab = "cards"
    /\ id \in Ids(plants)
    /\ Event(deletePlant(Closure, Closure, id, confirmed),
             [NoEvent EXCEPT !.op = IF confirmed THEN "deletePlant"
                                    ELSE "deletePlantCancelled",
                             !.plantId = id])

\* no rename input holds the focus (a click elsewhere blurs it first)
NotEditing ==
    /\ editingBedId = null
    /\ editingPlantId = null

\* click on the name of the k-th placed bed: startEditingBed, then the
\* click handlers of the bed and of the garden (the click bubbles)
ClickPlacedBedName(k, bedOff, gardenOff) ==
    /\ UiFree
    /\ NotEditing
    /\ k \in 1..Len(placedBeds(Closure))
    /\ LET c == Closure
           bed == placedBeds(c)[k]
           rectW == BedRectWidth(bed)
           rectH == BedRectHeight(bed)
           s1 == startEditingBed(c, bed.id, bed.name)
           s2 == IF c.placementMode = "plant"
                 THEN handleBedClick(c, s1, bed.id, bedOff[1], bedOff[2],
                                     rectW, rectH)
                 ELSE handleBedSelect(c, s1, bed.id)
           s3 == handleGardenClick(c, s2, gardenOff[1], gardenOff[2])
           placing == c.placementMode = "plant" /\ c.selectedPlant # null
       IN  Event(s3, [NoEvent EXCEPT
                         !.op = "editBedName", !.bedId = bed.id,
                         !.plantId = IF placing THEN c.selectedPlant
                                     ELSE null,
                         !.at = gardenOff])

\* onChange of the bed name input
TypeBedName(text) ==
    /\ tab = "layout"
    /\ editingBedId # null
    /\ Event([Closure EXCEPT !.editingBedName = text],
             [NoEvent EXCEPT !.op = "typeBedName", !.bedId = editingBedId])

\* blur of the bed name input, or Enter in it
CommitBedName ==
    /\ tab = "layout"
    /\ editingBedId # null
    /\ Event(saveBedName(Closure, Closure),
             [NoEvent EXCEPT !.op = "commitBedName", !.bedId = editingBedId])

\* Escape in the bed name input
CancelBedName ==
    /\ tab = "layout"
    /\ editingBedId # null
    /\ Event([Closure EXCEPT !.editingBedId = null, !.editingBedName = ""],
             [NoEvent EXCEPT !.op = "cancelBedName", !.bedId = editingBedId])

\* click on the name in the badge of an unplaced plant (stopPropagation)
ClickPlantName(k) ==
    /\ UiFree
    /\ NotEditing
    /\ k \in 1..Len(unplacedPlants(Closure))
    /\ LET plant == unplacedPlants(Closure)[k]
       IN  Event(startEditingPlant(Closure, plant.id, plant.name),
                 [NoEvent EXCEPT !.op = "editPlantName",
                                 !.plantId = plant.id])

TypePlantName(text) ==
    /\ tab = "layout"
    /\ editingPlantId # null
    /\ Event([Closure EXCEPT !.editingPlantName = text],
             [NoEvent EXCEPT !.op = "typePlantName",
                             !.plantId = editingPlantId])

CommitPlantName ==
    /\ tab = "layout"
    /\ editingPlantId # null
    /\ Event(savePlantName(Closure, Closure),
             [NoEvent EXCEPT !.op = "commitPlantName",
                             !.plantId = editingPlantId])

CancelPlantName ==
    /\ tab = "layout"
    /\ editingPlantId # null
    /\ Event([Closure EXCEPT !.editingPlantId = null,
                             !.editingPlantName = ""],
             [NoEvent EXCEPT !.op = "cancelPlantName",
                             !.plantId = editingPlantId])

\* the page is loaded again: Index mounts with the cards tab
Reload ==
    /\ tab = "cards"
    /\ Commit(mountIndex(Closure))
    /\ last' = [NoEvent EXCEPT !.op = "reload",
                               !.form = <<getCurrentSeason(localStorage)>>]
    /\ UNCHANGED <<now, tab>>

\* Harvest button of a plant card
HarvestCardClick(id, answer) ==
    /\ tab = "cards"
    /\ id \in Ids(plants)
    /\ \A i \in 1..Len(plants) :
          plants[i].id = id =>
              Abs(plants[i].totalHarvest + answer.num) <= MaxHarvest
    /\ Event(promptHarvest(Closure, id, answer, now),
             [NoEvent EXCEPT
                !.op = IF ~answer.cancelled /\ ~answer.empty /\ ~answer.nan
                       THEN "harvest" ELSE "harvestRejected",
                !.plantId = id, !.form = <<answer>>])

\* click on the chip of a placed plant (stopPropagation)
HarvestChipClick(id, answer) ==
    /\ UiFree
    /\ id \in chipPlants(Closure)
    /\ \A i \in 1..Len(plants) :
          plants[i].id = id =>
              Abs(plants[i].totalHarvest + answer.num) <= MaxHarvest
    /\ Event(promptHarvest(Closure, id, answer, now),
             [NoEvent EXCEPT
                !.op = IF ~answer.cancelled /\ ~answer.empty /\ ~answer.nan
                       THEN "harvest" ELSE "harvestRejected",
                !.plantId = id, !.form = <<answer>>])

\* header button "New Season": the prompt gives the name, trimmed, not empty
NewSeason(seasonName) ==
    /\ ~duplicateDialogOpen
    /\ draggedPlantId = null
    /\ Len(seasonReports) < MaxReports
    /\ Event(createNewGarden(Closure, Closure, seasonName, now),
             [NoEvent EXCEPT !.op = "newSeason", !.form = <<seasonName>>])

\* between two visits of the layout an item of the store is removed, or
\* replaced by text that is not JSON (by the user, or by another page of the
\* origin); key is "beds", "positions" or "settings"
StoreEdit(key, item) ==
    /\ tab = "cards"
    /\ localStorage' =
          CASE key = "beds" -> [localStorage EXCEPT !.beds = item]
            [] key = "settings" -> [localStorage EXCEPT !.settings = item]
            [] OTHER ->
                 [localStorage EXCEPT
                     !.positions[getCurrentSeason(localStorage)] = item]
    /\ localStorage' # localStorage
    /\ last' = [NoEvent EXCEPT !.op = "storeEdit"]
    /\ UNCHANGED <<now, tab, plants, beds, plantPositions, selectedPlant,
                   selectedBed, placementMode, gardenWidth, gardenHeight,
                   editingBedId, editingPlantId, duplicateDialogOpen,
                   plantToDuplicate, duplicateName, draggedPlantId,
                   editingBedName, editingPlantName, showBoundaries,
                   currentSeason, seasonReports, quotaExceeded,
                   uncaughtError>>

\* the store runs out of space, or space is freed (by other pages of the
\* origin)
SetQuota(exceeded) ==
    /\ quotaExceeded # exceeded
    /\ quotaExceeded' = exceeded
    /\ last' = [NoEvent EXCEPT !.op = "quota"]
    /\ UNCHANGED <<now, tab, plants, beds, plantPositions, selectedPlant,
                   selectedBed, placementMode, gardenWidth, gardenHeight,
                   editingBedId, editingPlantId, duplicateDialogOpen,
                   plantToDuplicate, duplicateName, draggedPlantId,
                   editingBedName, editingPlantName, showBoundaries,
                   currentSeason, seasonReports, localStorage,
                   uncaughtError>>

ClickUnplacedPlant(plantId) ==
    /\ UiFree
    /\ plantId \in Ids(unplacedPlants(Closure))
    /\ Event(handlePlantSelect(Closure, Closure, plantId),
             [NoEvent EXCEPT !.op = "selectPlant", !.plantId = plantId])

ClickUnplacedBed(bedId) ==
    /\ UiFree
    /\ bedId \in Ids(unplacedBeds(Closure))
    /\ Event(handleBedSelect(Closure, Closure, bedId),
             [NoEvent EXCEPT !.op = "selectBed", !.bedId = bedId])

\* click on a placed bed of the garden grid: the bed's onClick, then the
\* garden container's onClick the event bubbles to
ClickPlacedBed(k, bedOff, gardenOff) ==
    /\ UiFree
    /\ k \in 1..Len(placedBeds(Closure))
    /\ LET c == Closure
           bed == placedBeds(c)[k]
           rectW == BedRectWidth(bed)
           rectH == BedRectHeight(bed)
           s1 == IF c.placementMode = "plant"
                 THEN handleBedClick(c, c, bed.id, bedOff[1], bedOff[2],
                                     rectW, rectH)
                 ELSE handleBedSelect(c, c, bed.id)
           s2 == handleGardenClick(c, s1, gardenOff[1], gardenOff[2])
           placing == c.placementMode = "plant" /\ c.selectedPlant # null
       IN  /\ bedOff[1] >= 0 /\ bedOff[1] < rectW
           /\ bedOff[2] >= 0 /\ bedOff[2] < rectH
           /\ Event(s2, [NoEvent EXCEPT
                    !.op = IF placing THEN "placePlant" ELSE "clickBed",
                    !.plantId = c.selectedPlant, !.bedId = bed.id,
                    !.at = gardenOff,
                    !.pos = IF placing
                            THEN <<Frac(bedOff[1], rectW),
                                   Frac(bedOff[2], rectH)>>
                            ELSE <<>>])

\* the same click with the pointer where the bed is drawn: the bed's box
\* starts bed.x px right of and bed.y + BedTopPx px below the content box
\* of the garden container, which lies ContainerInsetPx (border-2 and p-6)
\* inside the container's bounding rect
ClickBedAt(k, bedOff) ==
    /\ k \in 1..Len(placedBeds(Closure))
    /\ ClickPlacedBed(k, bedOff,
          <<ContainerInsetPx + placedBeds(Closure)[k].x + bedOff[1],
            ContainerInsetPx + placedBeds(Closure)[k].y + BedTopPx
                + bedOff[2]>>)

\* click on the garden grid outside every bed
ClickGarden(gardenOff) ==
    /\ UiFree
    /\ Event(handleGardenClick(Closure, Closure, gardenOff[1], gardenOff[2]),
             [NoEvent EXCEPT
                !.op = IF selectedBed # null /\ placementMode = "bed"
                       THEN "placeBed" ELSE "clickGarden",
                !.bedId = selectedBed, !.at = gardenOff])

\* click on the Cancel button, which is rendered inside the garden grid
ClickCancel(gardenOff) ==
    /\ UiFree
    /\ placementMode # null \/ selectedPlant # null \/ selectedBed # null
    /\ Event(handleGardenClick(Closure, clearSelection(Closure),
                               gardenOff[1], gardenOff[2]),
             [NoEvent EXCEPT !.op = "cancel", !.bedId = selectedBed,
                             !.at = gardenOff])

\* delete button of a Manage Beds card
RemoveBedManage(bedId) ==
    /\ UiFree
    /\ bedId \in Ids(beds)
    /\ Event(removeBed(Closure, bedId),
             [NoEvent EXCEPT !.op = "removeBed", !.bedId = bedId])

\* trash icon of a placed bed (stopPropagation)
RemoveBedPlaced(bedId) ==
    /\ UiFree
    /\ bedId \in Ids(placedBeds(Closure))
    /\ Event(removeBed(Closure, bedId),
             [NoEvent EXCEPT !.op = "removeBed", !.bedId = bedId])

\* delete button of an Unplaced Beds card: the click bubbles to the card
RemoveBedUnplaced(bedId) ==
    /\ UiFree
    /\ bedId \in Ids(unplacedBeds(Closure))
    /\ Event(handleBedSelect(Closure, removeBed(Closure, bedId), bedId),
             [NoEvent EXCEPT !.op = "removeBed", !.bedId = bedId])

\* submit of the Add Garden Bed form; at: the cells passed to onAddBed
SubmitBedFormEvent(formData, rnds) ==
    LET r == handleSubmit(Closure, Closure, formData, now, rnds)
    IN  Event(r[1], [NoEvent EXCEPT !.op = "submitBeds",
                                    !.form = <<formData>>, !.at = r[2]])

SubmitBedForm(formData, rnds) ==
    /\ UiFree
    /\ Len(beds) + (IF formData.useBulkMode THEN formData.quantity ELSE 1)
          <= MaxBeds
    /\ SubmitBedFormEvent(formData, rnds)

\* the same submit beside a registry of placed beds of any length: at most
\* MaxBeds beds are waiting to be placed
SubmitBedFormBeside(formData, rnds) ==
    /\ UiFree
    /\ Len(unplacedBeds(Closure))
          + (IF formData.useBulkMode THEN formData.quantity ELSE 1) <= MaxBeds
    /\ SubmitBedFormEvent(formData, rnds)

PlantDragStart(plantId) ==
    /\ UiFree
    /\ editingPlantId # plantId
    /\ plantId \in Ids(plants)
    /\ \E i \in 1..Len(plantPositions) :
          /\ plantPositions[i].plantId = plantId
          /\ plantPositions[i].bedId \in Ids(placedBeds(Closure))
    /\ Event([Closure EXCEPT !.draggedPlantId = plantId],
             [NoEvent EXCEPT !.op = "dragStart", !.plantId = plantId])

PlantDragEnd ==
    /\ tab = "layout"
    /\ draggedPlantId # null
    /\ Event([Closure EXCEPT !.draggedPlantId = null],
             [NoEvent EXCEPT !.op = "dragEnd"])

RemoveZoneDrop ==
    /\ tab = "layout"
    /\ draggedPlantId # null
    /\ Event(handleRemoveZoneDrop(Closure, [plantId |-> draggedPlantId,
                                            action |-> "remove"]),
             [NoEvent EXCEPT !.op = "removeZoneDrop",
                             !.plantId = draggedPlantId])

OpenDuplicate(k) ==
    /\ UiFree
    /\ k \in 1..Len(unplacedPlants(Closure))
    /\ Event(handleDuplicatePlant(Closure, unplacedPlants(Closure)[k]),
             [NoEvent EXCEPT !.op = "openDuplicate",
                             !.plantId = unplacedPlants(Closure)[k].id])

TypeDuplicateName(text) ==
    /\ tab = "layout"
    /\ duplicateDialogOpen
    /\ Event([Closure EXCEPT !.duplicateName = text],
             [NoEvent EXCEPT !.op = "typeDuplicateName"])

SubmitDuplication ==
    /\ tab = "layout"
    /\ duplicateDialogOpen
    /\ Len(plants) < MaxPlants
    /\ Event(submitDuplication(Closure, Closure, now),
             [NoEvent EXCEPT
                !.op = IF plantToDuplicate # <<>> /\ trim(duplicateName) # ""
                       THEN "duplicate" ELSE "duplicateRejected",
                !.plantId = ToString(now)])

CloseDuplicateDialog ==
    /\ tab = "layout"
    /\ duplicateDialogOpen
    /\ Event([Closure EXCEPT !.duplicateDialogOpen = FALSE],
             [NoEvent EXCEPT !.op = "closeDuplicate"])

GardenWidthChange(value) ==
    /\ UiFree
    /\ Event([Closure EXCEPT !.gardenWidth = gardenSizeChange(gardenWidth, value)],
             [NoEvent EXCEPT !.op = "gardenWidth"])

GardenHeightChange(value) ==
    /\ UiFree
    /\ Event([Closure EXCEPT !.gardenHeight = gardenSizeChange(gardenHeight, value)],
             [NoEvent EXCEPT !.op = "gardenHeight"])


\* focus leaves a size input; the text it holds is the rendered state
GardenWidthBlur ==
    /\ UiFree
    /\ Event([Closure EXCEPT
                 !.gardenWidth = gardenSizeBlur(gardenWidth,
                                                sizeInputValue(gardenWidth))],
             [NoEvent EXCEPT !.op = "gardenWidthBlur",
                             !.form = <<sizeInputValue(gardenWidth)>>])

GardenHeightBlur ==
    /\ UiFree
    /\ Event([Closure EXCEPT
                 !.gardenHeight = gardenSizeBlur(gardenHeight,
                                                 sizeInputValue(gardenHeight))],
             [NoEvent EXCEPT !.op = "gardenHeightBlur",
                             !.form = <<sizeInputValue(gardenHeight)>>])

\* ---------------------------------- events of the drag-and-drop variant
\* a gesture (drag start .. drop, touch start .. touch end) is one event:
\* nothing else is handled while it is under way

\* the bed whose rectangle shows the chip of the plant
chipBed(c, plantId) ==
    LET i == CHOOSE k \in 1..Len(c.plantPositions) :
                /\ c.plantPositions[k].plantId = plantId
                /\ c.plantPositions[k].bedId \in Ids(placedBeds(c))
    IN  c.plantPositions[i].bedId

\* the badge of an unplaced plant dragged and dropped on a placed bed
DragPlantToBed(plantId, k, bedOff) ==
    /\ UiFree
    /\ plantId \in Ids(unplacedPlants(Closure))
    /\ k \in 1..Len(placedBeds(Closure))
    /\ LET c == Closure
           bed == placedBeds(c)[k]
       IN  /\ InBedSubtree(c, bed, bedOff[1], bedOff[2])
           /\ Event(bedDrop(c, bed, badgeDragData(plantId), plantId,
                            bedOff[1], bedOff[2],
                            BedRectWidth(bed), BedRectHeight(bed)),
                    [NoEvent EXCEPT !.op = "placePlant", !.plantId = plantId,
                                    !.bedId = bed.id,
                                    !.pos = <<Frac(bedOff[1], BedRectWidth(bed)),
                                              Frac(bedOff[2], BedRectHeight(bed))>>])

\* the chip of a placed plant dragged and dropped on a placed bed
DragChipToBed(plantId, k, bedOff) ==
    /\ UiFree
    /\ plantId \in chipPlants(Closure)
    /\ k \in 1..Len(placedBeds(Closure))
    /\ LET c == Closure
           bed == placedBeds(c)[k]
       IN  /\ InBedSubtree(c, bed, bedOff[1], bedOff[2])
           /\ Event(bedDrop(c, bed, chipDragData(plantId, chipBed(c, plantId)),
                            plantId, bedOff[1], bedOff[2],
                            BedRectWidth(bed), BedRectHeight(bed)),
                    [NoEvent EXCEPT !.op = "dropChipOnBed",
                                    !.plantId = plantId, !.bedId = bed.id])

\* the chip of a placed plant dragged and dropped on the garden container
\* outside every bed
DragChipToGarden(plantId, gardenOff) ==
    /\ UiFree
    /\ plantId \in chipPlants(Closure)
    /\ LET c == Closure
           bedId == chipBed(c, plantId)
       IN  Event(gardenContainerDrop(c, c, chipDragData(plantId, bedId),
                                     bedId, gardenOff[1], gardenOff[2]),
                 [NoEvent EXCEPT !.op = "placeBed", !.plantId = plantId,
                                 !.bedId = bedId, !.at = gardenOff])

\* touch gesture on the badge of an unplaced plant, released over a placed
\* bed; the touchend passes the badge only
TouchPlantToBed(plantId, k, bedOff) ==
    /\ UiFree
    /\ plantId \in Ids(unplacedPlants(Closure))
    /\ k \in 1..Len(placedBeds(Closure))
    /\ LET c == Closure
           bed == placedBeds(c)[k]
           touchData == [isDragging |-> TRUE, dragType |-> "plant",
                         dragId |-> plantId]
           below == [inGarden |-> TRUE, gardenOff |-> <<0, 0>>,
                     bedId |-> bed.id, bedOff |-> bedOff,
                     rectW |-> BedRectWidth(bed),
                     rectH |-> BedRectHeight(bed)]
       IN  /\ InBedSubtree(c, bed, bedOff[1], bedOff[2])
           /\ Event(handleTouchEnd(c, c, touchData, below),
                    [NoEvent EXCEPT !.op = "placePlant", !.plantId = plantId,
                                    !.bedId = bed.id,
                                    !.pos = <<Frac(bedOff[1], BedRectWidth(bed)),
                                              Frac(bedOff[2], BedRectHeight(bed))>>])

\* touch gesture on the chip of a placed plant, released over the garden
\* container: the touchstart passes the chip and then its bed, whose
\* handleTouchStart leaves a bed gesture in touchData; the touchend passes
\* the chip, its bed and the garden container, which all bind handleTouchEnd
TouchChipToGarden(plantId, gardenOff) ==
    /\ UiFree
    /\ plantId \in chipPlants(Closure)
    /\ LET c == Closure
           bedId == chipBed(c, plantId)
           touchData == [isDragging |-> TRUE, dragType |-> "bed",
                         dragId |-> bedId]
           below == [inGarden |-> TRUE, gardenOff |-> gardenOff,
                     bedId |-> null, bedOff |-> <<0, 0>>,
                     rectW |-> BedMinWidthPx, rectH |-> BedMinHeightPx]
           h(s) == handleTouchEnd(c, s, touchData, below)
       IN  Event(h(h(h(c))),
                 [NoEvent EXCEPT !.op = "placeBed", !.plantId = plantId,
                                 !.bedId = bedId, !.at = gardenOff])

\* a bed dragged from its card or from the grid and dropped on the garden
\* container outside every bed
DragBedToGarden(bedId, gardenOff) ==
    /\ UiFree
    /\ bedId \in Ids(beds)
    /\ Event(gardenContainerDrop(Closure, Closure, bedDragData(bedId), bedId,
                                 gardenOff[1], gardenOff[2]),
             [NoEvent EXCEPT !.op = "placeBed", !.bedId = bedId,
                             !.at = gardenOff])

\* touch gesture on a bed, released over the garden container; the touchend
\* of a placed bed passes the bed and the garden container, that of the
\* card of an unplaced bed the card only
TouchBedToGarden(bedId, gardenOff) ==
    /\ UiFree
    /\ bedId \in Ids(beds)
    /\ LET c == Closure
           touchData == [isDragging |-> TRUE, dragType |-> "bed",
                         dragId |-> bedId]
           below == [inGarden |-> TRUE, gardenOff |-> gardenOff,
                     bedId |-> null, bedOff |-> <<0, 0>>,
                     rectW |-> BedMinWidthPx, rectH |-> BedMinHeightPx]
           h(s) == handleTouchEnd(c, s, touchData, below)
       IN  Event(IF bedId \in Ids(placedBeds(c)) THEN h(h(c)) ELSE h(c),
                 [NoEvent EXCEPT !.op = "placeBed", !.bedId = bedId,
                                 !.at = gardenOff])

\* ---------------------------------------- the Position Store's operations
\* handlePlantDrop called for any plant, bed and fractions
PlantDropCall(plantId, bedId, x, y) ==
    /\ UiFree
    /\ plantId \in Ids(plants)
    /\ bedId \in Ids(beds)
    /\ Event(handlePlantDrop(Closure, plantId, bedId, x, y),
             [NoEvent EXCEPT
                !.op = IF plantId \in Ids(unplacedPlants(Closure))
                       THEN "placePlant" ELSE "movePlant",
                !.plantId = plantId, !.bedId = bedId, !.pos = <<x, y>>])

\* ------------------------------------------------------------ input sets
\* Math.random() suffixes of the onAddBed calls of one submit: all distinct,
\* or repeating
RandomSuffixes == {<<"k3x", "p9q", "m2d">>, <<"k3x", "k3x", "k3x">>}

NewPlants ==
    {[name |-> "Mint", type |-> "Herb", location |-> "Pot 3",
      plantedDate |-> ISODate(now), lastWatered |-> ISOString(now),
      lastFertilized |-> ISOString(now), status |-> "healthy",
      spaceRequired |-> M2(3)]}

BedForms ==
    {[name |-> "", width |-> M(2), height |-> M(1), type |-> "raised",
      quantity |-> 1, useBulkMode |-> FALSE],
     [name |-> "Plot", width |-> M(2), height |-> M(1), type |-> "ground",
      quantity |-> 1, useBulkMode |-> FALSE]}
    \cup {[name |-> "Plot", width |-> M(2), height |-> M(1),
           type |-> "ground", quantity |-> q, useBulkMode |-> TRUE] :
              q \in 1..MaxQuantity}

DuplicateNames == {" ", " Basil 2 "}

GardenClicks == {<<175, 200>>}

BedClicks == {<<40, 30>>}

\* the layout tab: beds, positions, selection, and deletion of plants
Next ==
    \/ SwitchTab
    \/ \E id \in Ids(plants) : ClickUnplacedPlant(id)
    \/ \E id \in Ids(beds) : ClickUnplacedBed(id)
    \/ \E k \in 1..MaxBeds, bo \in BedClicks, go \in GardenClicks :
          ClickPlacedBed(k, bo, go)
    \/ \E go \in GardenClicks : ClickGarden(go)
    \/ \E go \in GardenClicks : ClickCancel(go)
    \/ \E id \in Ids(beds) : RemoveBedManage(id)
    \/ \E id \in Ids(beds) : RemoveBedPlaced(id)
    \/ \E id \in Ids(beds) : RemoveBedUnplaced(id)
    \/ \E fd \in BedForms, rnds \in RandomSuffixes :
          SubmitBedForm(fd, rnds)
    \/ \E id \in Ids(plants) : PlantDragStart(id)
    \/ PlantDragEnd
    \/ RemoveZoneDrop
    \/ \E id \in Ids(plants), confirmed \in BOOLEAN :
          DeletePlantClick(id, confirmed)

Spec == Init /\ [][Next]_vars

\* the plant list: add, delete, duplicate, with the clock that names plants
NextPlants ==
    \/ Tick
    \/ SwitchTab
    \/ \E newPlant \in NewPlants : AddPlantSubmit(newPlant)
    \/ \E k \in 1..MaxPlants : OpenDuplicate(k)
    \/ \E text \in DuplicateNames : TypeDuplicateName(text)
    \/ SubmitDuplication
    \/ CloseDuplicateDialog

SpecPlants == Init /\ [][NextPlants]_vars

\* the drag-and-drop / touch variant of the layout
DragBedOffsets == {<<0, 30>>, <<0 - 10, 30>>, <<40, 30>>}

NextDrag ==
    \/ SwitchTab
    \/ \E id \in Ids(plants), k \in 1..MaxBeds, bo \in DragBedOffsets :
          DragPlantToBed(id, k, bo)
    \/ \E id \in Ids(plants), k \in 1..MaxBeds, bo \in DragBedOffsets :
          TouchPlantToBed(id, k, bo)
    \/ \E id \in Ids(plants), k \in 1..MaxBeds, bo \in DragBedOffsets :
          DragChipToBed(id, k, bo)
    \/ \E id \in Ids(plants), go \in GardenClicks : DragChipToGarden(id, go)
    \/ \E id \in Ids(plants), go \in GardenClicks : TouchChipToGarden(id, go)
    \/ \E id \in Ids(beds), go \in GardenClicks : DragBedToGarden(id, go)
    \/ \E id \in Ids(beds), go \in GardenClicks : TouchBedToGarden(id, go)
    \/ \E id \in Ids(beds) : RemoveBedManage(id)
    \/ \E id \in Ids(beds) : RemoveBedPlaced(id)

SpecDrag == Init /\ [][NextDrag]_vars

\* the Position Store under its operations: placement of any plant at any
\* of the fractions 0, 1/2 and 1, removal by the remove zone, bed deletion
StoreFractions == {Frac(0, 1), Frac(1, 2), Frac(1, 1)}

NextStore ==
    \/ SwitchTab
    \/ \E id \in Ids(plants), b \in Ids(beds), x, y \in StoreFractions :
          PlantDropCall(id, b, x, y)
    \/ \E id \in Ids(plants) : PlantDragStart(id)
    \/ PlantDragEnd
    \/ RemoveZoneDrop
    \/ \E id \in Ids(beds) : RemoveBedManage(id)

SpecStore == Init /\ [][NextStore]_vars

\* ------------------------------------- bed placement against garden sizes
\* registries holding one unplaced bed created through the bed form, of a
\* width and height the form accepts (0.75 m, 1 m, 2 m)
PlaceBeds ==
    {<<[id |-> "bed-1000-k3x", name |-> "Plot", width |-> w, height |-> h,
        x |-> M(-1), y |-> M(-1), type |-> "ground"]>> :
        w \in {M(3) \div 4, M(1), M(2)}, h \in {M(1), M(2)}}

InitPlace ==
    /\ now = 1000
    /\ tab = "cards"
    /\ plants = DefaultPlants
    /\ beds \in PlaceBeds
    /\ plantPositions = <<>>
    /\ selectedPlant = null
    /\ selectedBed = null
    /\ placementMode = null
    /\ gardenWidth = DefaultSettings.width
    /\ gardenHeight = DefaultSettings.height
    /\ editingBedId = null
    /\ editingPlantId = null
    /\ duplicateDialogOpen = FALSE
    /\ plantToDuplicate = <<>>
    /\ duplicateName = ""
    /\ draggedPlantId = null
    /\ editingBedName = ""
    /\ editingPlantName = ""
    /\ showBoundaries = DefaultSettings.showBoundaries
    /\ currentSeason = DefaultSeason
    /\ seasonReports = <<>>
    /\ quotaExceeded = FALSE
    /\ uncaughtError = FALSE
    /\ localStorage =
          [InitialStorage EXCEPT !.beds = JSONtext(stringifyBeds(beds))]
    /\ last = NoEvent

\* texts of the garden size inputs: "", "abc", "1", "2", "51"
GardenSizeTexts ==
    {[empty |-> TRUE, nan |-> FALSE, num |-> 0],
     [empty |-> FALSE, nan |-> TRUE, num |-> 0]}
    \cup {[empty |-> FALSE, nan |-> FALSE, num |-> M(n)] : n \in {1, 2, 51}}

\* pointers over the garden grid: left of the canvas origin, on it, 1.25 m,
\* 1.5 m and 11 m to the right of it; 0.5 m and 10 m below it
PlaceClicks ==
    {<<GardenOffsetX + px, GardenOffsetY + py>> :
        px \in {0 - GardenOffsetX, 0, (5 * CellPx) \div 4, (3 * CellPx) \div 2,
                M(11)},
        py \in {CellPx \div 2, M(10)}}

NextPlace ==
    \/ SwitchTab
    \/ \E v \in GardenSizeTexts : GardenWidthChange(v)
    \/ \E v \in GardenSizeTexts : GardenHeightChange(v)
    \/ \E id \in Ids(beds) : ClickUnplacedBed(id)
    \/ \E k \in 1..MaxBeds, bo \in BedClicks, go \in PlaceClicks :
          ClickPlacedBed(k, bo, go)
    \/ \E go \in PlaceClicks : ClickGarden(go)
    \/ \E id \in Ids(beds), go \in PlaceClicks : DragBedToGarden(id, go)
    \/ \E id \in Ids(beds), go \in PlaceClicks : TouchBedToGarden(id, go)

SpecPlace == InitPlace /\ [][NextPlace]_vars

\* ============================================================== properties
NextSeason ==
    \/ SwitchTab
    \/ \E name \in SeasonNames : NewSeason(name)
    \/ \E id \in Ids(plants) : DeletePlantClick(id, TRUE)
    \/ \E plantId \in Ids(plants) : ClickUnplacedPlant(plantId)
    \/ \E k \in 1..MaxBeds, bedOff \in BedClicks, gardenOff \in GardenClicks :
          ClickPlacedBed(k, bedOff, gardenOff)

SpecSeason == Init /\ [][NextSeason]_vars

\* texts typed into a rename input
EditTexts == {"", " ", " Basil 2 "}

\* inline rename of beds and plants, with plants added in between
NextRename ==
    \/ NotEditing /\ SwitchTab
    \/ \E newPlant \in NewPlants : NotEditing /\ AddPlantSubmit(newPlant)
    \/ \E k \in 1..MaxBeds, bedOff \in BedClicks, gardenOff \in GardenClicks :
          ClickPlacedBedName(k, bedOff, gardenOff)
    \/ \E text \in EditTexts : TypeBedName(text)
    \/ CommitBedName
    \/ CancelBedName
    \/ \E k \in 1..MaxPlants : ClickPlantName(k)
    \/ \E text \in EditTexts : TypePlantName(text)
    \/ CommitPlantName
    \/ CancelPlantName

SpecRename == Init /\ [][NextRename]_vars

\* the layout over a store that other writers touch between visits
NextLoad ==
    \/ SwitchTab
    \/ \E key \in {"beds", "positions", "settings"},
          item \in {NoItem, MalformedItem} : StoreEdit(key, item)
    \/ \E bedId \in Ids(beds) : RemoveBedManage(bedId)
    \/ \E plantId \in Ids(plants) : ClickUnplacedPlant(plantId)
    \/ \E k \in 1..MaxBeds, bedOff \in BedClicks, gardenOff \in GardenClicks :
          ClickPlacedBed(k, bedOff, gardenOff)
    \/ \E value \in GardenSizeTexts : GardenWidthChange(value)

SpecLoad == Init /\ [][NextLoad]_vars

\* the layout and the season change over a store whose writes may fail
NextQuota ==
    \/ SwitchTab
    \/ SetQuota(TRUE)
    \/ \E name \in SeasonNames : NewSeason(name)
    \/ \E bedId \in Ids(beds) : RemoveBedManage(bedId)
    \/ \E plantId \in Ids(plants) : ClickUnplacedPlant(plantId)
    \/ \E k \in 1..MaxBeds, bedOff \in BedClicks, gardenOff \in GardenClicks :
          ClickPlacedBed(k, bedOff, gardenOff)

SpecQuota == Init /\ [][NextQuota]_vars


\* bed lists found under 'garden-beds' that no form of the page has written:
\* a bed of width 0, a bed of height 0, and a bed of no extent at all
StoredBedLists ==
    { << [DefaultBeds[1] EXCEPT !.width = 0], DefaultBeds[2] >>,
      << DefaultBeds[1], [DefaultBeds[2] EXCEPT !.height = 0] >>,
      << [DefaultBeds[2] EXCEPT !.width = 0, !.height = 0] >> }

\* the layout over a stored bed list with beds of no area
NextUtil ==
    \/ SwitchTab
    \/ \E list \in StoredBedLists :
          StoreEdit("beds", JSONtext(stringifyBeds(list)))
    \/ \E bedId \in Ids(beds) : RemoveBedManage(bedId)
    \/ \E plantId \in Ids(plants) : ClickUnplacedPlant(plantId)
    \/ \E k \in 1..MaxBeds, bedOff \in BedClicks, gardenOff \in GardenClicks :
          ClickPlacedBed(k, bedOff, gardenOff)

SpecUtil == Init /\ [][NextUtil]_vars


\* texts typed into the boundary inputs: "", "abc", "-3", "0.5", "1", "7.5",
\* "50", "51"
BoundaryTexts ==
    {[empty |-> TRUE, nan |-> FALSE, num |-> 0],
     [empty |-> FALSE, nan |-> TRUE, num |-> 0]}
    \cup {[empty |-> FALSE, nan |-> FALSE, num |-> n] :
             n \in {M(-3), M(1) \div 2, M(1), M(15) \div 2, M(50), M(51)}}

\* settings found under 'garden-settings': widths of 0 m, 5 m and 60 m,
\* heights of -2 m and 8 m
StoredSettings ==
    {[width |-> w, height |-> h, showBoundaries |-> TRUE] :
        w \in {0, M(5), M(60)}, h \in {M(-2), M(8)}}

\* the boundary inputs of the layout over stored settings
NextSize ==
    \/ SwitchTab
    \/ \E settings \in StoredSettings :
          StoreEdit("settings", JSONtext(stringifySettings(settings)))
    \/ \E value \in BoundaryTexts : GardenWidthChange(value)
    \/ \E value \in BoundaryTexts : GardenHeightChange(value)
    \/ GardenWidthBlur
    \/ GardenHeightBlur

SpecSize == Init /\ [][NextSize]_vars


\* ------------------------------------------ bed creation beside placed beds
\* a 1 m x 1 m bed placed at the grid cell (x, y)
CellBed(x, y) ==
    [id |-> "bed-" \o ToString(x) \o "-" \o ToString(y), name |-> "Cell",
     width |-> M(1), height |-> M(1), x |-> M(x), y |-> M(y),
     type |-> "ground"]

\* registries of beds placed by click: none; (0,0); (0,0) and (1,0); (1,0)
\* alone; columns 0..7 of row 0; the whole of row 0; row 0 and (0,1); and
\* (0,0) beside a bed 0.75 m wide held at x = 9.25 by the clamp
SubmitRegistries ==
    { <<>>,
      <<CellBed(0, 0)>>,
      <<CellBed(0, 0), CellBed(1, 0)>>,
      <<CellBed(1, 0)>>,
      [i \in 1..8 |-> CellBed(i - 1, 0)],
      [i \in 1..9 |-> CellBed(i - 1, 0)],
      [i \in 1..10 |-> IF i <= 9 THEN CellBed(i - 1, 0) ELSE CellBed(0, 1)],
      <<CellBed(0, 0),
        [CellBed(9, 0) EXCEPT !.width = M(3) \div 4, !.x = M(37) \div 4]>> }

InitSubmit ==
    /\ now = 1000
    /\ tab = "cards"
    /\ plants = DefaultPlants
    /\ beds \in SubmitRegistries
    /\ plantPositions = <<>>
    /\ selectedPlant = null
    /\ selectedBed = null
    /\ placementMode = null
    /\ gardenWidth = DefaultSettings.width
    /\ gardenHeight = DefaultSettings.height
    /\ editingBedId = null
    /\ editingPlantId = null
    /\ duplicateDialogOpen = FALSE
    /\ plantToDuplicate = <<>>
    /\ duplicateName = ""
    /\ draggedPlantId = null
    /\ editingBedName = ""
    /\ editingPlantName = ""
    /\ showBoundaries = DefaultSettings.showBoundaries
    /\ currentSeason = DefaultSeason
    /\ seasonReports = <<>>
    /\ quotaExceeded = FALSE
    /\ uncaughtError = FALSE
    /\ localStorage =
          [InitialStorage EXCEPT !.beds = JSONtext(stringifyBeds(beds))]
    /\ last = NoEvent

NextSubmit ==
    \/ SwitchTab
    \/ \E fd \in BedForms, rnds \in RandomSuffixes :
          SubmitBedFormBeside(fd, rnds)
    \/ \E id \in Ids(beds) : RemoveBedUnplaced(id)

SpecSubmit == InitSubmit /\ [][NextSubmit]_vars


\* ------------------------------------------------- clicks on placed beds
\* pointers inside a placed bed, from its top left corner: near the corner,
\* in the middle of the smallest bed, and near its bottom right corner
BedPoints == {<<10, 10>>, <<40, 30>>, <<70, 50>>}

NextReclick ==
    \/ SwitchTab
    \/ \E k \in 1..MaxBeds, bedOff \in BedPoints : ClickBedAt(k, bedOff)
    \/ \E go \in GardenClicks : ClickCancel(go)
    \/ \E id \in Ids(beds) : RemoveBedPlaced(id)

SpecReclick == Init /\ [][NextReclick]_vars


\* --------------------------------------------- the main page loaded again
NextReload ==
    \/ Reload
    \/ \E name \in SeasonNames : NewSeason(name)
    \/ \E newPlant \in NewPlants : AddPlantSubmit(newPlant)
    \/ \E id \in Ids(plants) : DeletePlantClick(id, TRUE)

SpecReload == Init /\ [][NextReload]_vars


\* ------------------------------------------------------------- harvests
\* answers to the harvest prompt: Cancel, "", "abc", " " (Number gives 0),
\* "2" and "-3"
HarvestAnswers ==
    {[cancelled |-> TRUE, empty |-> FALSE, nan |-> FALSE, num |-> 0],
     [cancelled |-> FALSE, empty |-> TRUE, nan |-> FALSE, num |-> 0],
     [cancelled |-> FALSE, empty |-> FALSE, nan |-> TRUE, num |-> 0]}
    \cup {[cancelled |-> FALSE, empty |-> FALSE, nan |-> FALSE, num |-> n] :
             n \in {0, 20, -30}}

NextHarvest ==
    \/ SwitchTab
    \/ \E id \in Ids(plants), answer \in HarvestAnswers :
          HarvestCardClick(id, answer)
    \/ \E id \in Ids(plants), answer \in HarvestAnswers :
          HarvestChipClick(id, answer)
    \/ \E plantId \in Ids(plants) : ClickUnplacedPlant(plantId)
    \/ \E k \in 1..MaxBeds, bedOff \in BedClicks, gardenOff \in GardenClicks :
          ClickPlacedBed(k, bedOff, gardenOff)

SpecHarvest == Init /\ [][NextHarvest]_vars

PositionsOf(plantId) ==
    {i \in 1..Len(plantPositions) : plantPositions[i].plantId = plantId}

\* C1: removing bed B takes B out of the Bed Registry and every position
\* with bedId B out of the Position Store, and keeps every other bed and
\* every position of another bed as it was, in the order it was.
C1_RemoveBedCascades ==
    [][last'.op = "removeBed" =>
        LET B == last'.bedId
        IN  /\ B \notin Ids(beds')
            /\ \A i \in 1..Len(plantPositions') : plantPositions'[i].bedId # B
            /\ beds' = SelectSeq(beds, LAMBDA bed : bed.id # B)
            /\ plantPositions' =
                  SelectSeq(plantPositions, LAMBDA pos : pos.bedId # B)]_vars

\* a bed has been removed while a plant stays placed in another bed
C1_Witness ==
    /\ last.op = "removeBed"
    /\ last.bedId = "bed-1"
    /\ \E i \in 1..Len(plantPositions) : plantPositions[i].bedId = "bed-2"

\* C2: the Position Store holds at most one position per plant id, and
\* right after plant P is placed into bed B at (x, y) it holds exactly one
\* position of P, which is (B, x, y).
C2_OnePositionPerPlant ==
    /\ \A i, j \in 1..Len(plantPositions) :
          plantPositions[i].plantId = plantPositions[j].plantId => i = j
    /\ last.op \in {"placePlant", "movePlant"} =>
          /\ Cardinality(PositionsOf(last.plantId)) = 1
          /\ \A i \in PositionsOf(last.plantId) :
                plantPositions[i] = [plantId |-> last.plantId,
                                     bedId |-> last.bedId,
                                     x |-> last.pos[1], y |-> last.pos[2]]

\* a placed plant has been placed again, into another bed, while the other
\* plant stays placed
C2_Witness ==
    /\ last.op = "movePlant"
    /\ last.bedId = "bed-2"
    /\ Len(plantPositions) = 2
    /\ plantPositions[1].bedId = "bed-1"

\* C3: every position of the Position Store references a bed of the Bed
\* Registry.
C3_PositionsReferenceBeds ==
    \A i \in 1..Len(plantPositions) : plantPositions[i].bedId \in Ids(beds)

\* a bed holding a plant has been removed and a placed plant remains
C3_Witness ==
    /\ last.op = "removeBed"
    /\ Len(beds) = 1
    /\ Len(plantPositions) = 1
    /\ Len(unplacedPlants(Closure)) = 1

\* C4: every position of the Position Store references a plant of the plant
\* list (so none of a deleted plant remains).
C4_PositionsReferencePlants ==
    \A i \in 1..Len(plantPositions) : plantPositions[i].plantId \in Ids(plants)

\* C5: a bulk submission of quantity N > 1 appends N beds named "Name 1" ..
\* "Name N", whose stored coordinates are pairwise distinct.
C5_BulkCreateDistinct ==
    [][(/\ last'.op = "submitBeds"
        /\ last'.form[1].name # ""
        /\ last'.form[1].useBulkMode
        /\ last'.form[1].quantity > 1) =>
        LET N == last'.form[1].quantity
            base == Len(beds)
        IN  /\ Len(beds') = base + N
            /\ SubSeq(beds', 1, base) = beds
            /\ \A i \in 1..N :
                  beds'[base + i].name
                      = last'.form[1].name \o " " \o ToString(i)
            /\ \A i, j \in 1..N :
                  i # j => <<beds'[base + i].x, beds'[base + i].y>>
                              # <<beds'[base + j].x, beds'[base + j].y>>]_vars

\* C6 as stated: a bed whose coordinates a step sets lies with its whole
\* footprint inside the garden.
PlacedInStep(i) ==
    /\ i <= Len(beds)
    /\ beds'[i].id = beds[i].id
    /\ <<beds'[i].x, beds'[i].y>> # <<beds[i].x, beds[i].y>>

C7_ReclampIdempotent ==
    last.op = "placeBed" =>
        \A i \in 1..Len(beds) : beds[i].id = last.bedId =>
            /\ last.at[1] - GardenOffsetX > gardenWidth - beds[i].width =>
                  beds[i].x = Max(0, ClampedCoord(gardenWidth - beds[i].width,
                                                  beds[i].width, gardenWidth))
            /\ last.at[2] - GardenOffsetY > gardenHeight - beds[i].height =>
                  beds[i].y = Max(0, ClampedCoord(gardenHeight - beds[i].height,
                                                  beds[i].height,
                                                  gardenHeight))

\* C8: every stored fraction lies in [0, 1].
C8_FractionsInUnitInterval ==
    \A i \in 1..Len(plantPositions) :
        /\ 0 <= plantPositions[i].x.n
        /\ plantPositions[i].x.n <= plantPositions[i].x.d
        /\ 0 <= plantPositions[i].y.n
        /\ plantPositions[i].y.n <= plantPositions[i].y.d

\* the plants of the plant list with a position in the bed
PlantsIn(bedId) ==
    {id \in Ids(plants) :
        \E i \in 1..Len(plantPositions) :
            /\ plantPositions[i].plantId = id
            /\ plantPositions[i].bedId = bedId}

RECURSIVE SpaceRequiredOf(_)
SpaceRequiredOf(ids) ==
    IF ids = {} THEN 0
    ELSE LET id == CHOOSE x \in ids : TRUE
             plant == plants[CHOOSE k \in 1..Len(plants) : plants[k].id = id]
         IN  plant.spaceRequired + SpaceRequiredOf(ids \ {id})

C10_DuplicateAppendsFreshCopy ==
    [][last'.op = "duplicate" =>
        LET source == plantToDuplicate[1]
            copy == plants'[Len(plants')]
        IN  /\ Len(plants') = Len(plants) + 1
            /\ SubSeq(plants', 1, Len(plants)) = plants
            /\ copy.name = trim(duplicateName)
            /\ copy.totalHarvest = 0
            /\ copy.comments = <<>>
            /\ copy.plantedDate = ISODate(now)
            /\ copy.type = source.type
            /\ copy.location = source.location
            /\ copy.spaceRequired = source.spaceRequired
            /\ copy.status = source.status
            /\ copy.lastWatered = source.lastWatered
            /\ copy.lastFertilized = source.lastFertilized]_vars

\* a plant with a harvest on record has been duplicated
C10_Witness ==
    /\ last.op = "duplicate"
    /\ \E i \in 1..Len(plants) :
          /\ plants[i].name = "Cherry Tomatoes Copy"
          /\ plants[i].totalHarvest = 0
          /\ plants[i].spaceRequired = DefaultPlants[1].spaceRequired

\* C11: no two plants of the active plant set share an id, whatever sequence
\* of addPlant and duplicatePlant produced them (the clock need not advance
\* between two operations), and a duplicate's id differs from its source's.
C11_PlantIdsUnique ==
    /\ [](\A i, j \in 1..Len(plants) : plants[i].id = plants[j].id => i = j)
    /\ [][last'.op = "duplicate" =>
            plants'[Len(plants')].id # plantToDuplicate[1].id]_vars

\* C18: a drop of a placed plant on the removal zone deletes the positions of
\* that plant and changes no other position, bed or plant, and the plant is
\* then in the unplaced pool; in every state the unplaced pool holds exactly
\* the active plants that have no position in the Position Store.
C18_RemoveZoneUnplaces ==
    /\ [][last'.op = "removeZoneDrop" =>
            /\ plantPositions' =
                   SelectSeq(plantPositions,
                             LAMBDA pos : pos.plantId # draggedPlantId)
            /\ beds' = beds
            /\ plants' = plants
            /\ \E i \in 1..Len(plants') :
                   /\ plants'[i].id = draggedPlantId
                   /\ plants'[i] \in
                         {unplacedPlants(Closure)'[k] :
                             k \in 1..Len(unplacedPlants(Closure)')}]_vars
    /\ [](LET pool == unplacedPlants(Closure)
          IN  /\ {pool[k] : k \in 1..Len(pool)} =
                    {plants[i] : i \in {j \in 1..Len(plants) :
                        plants[j].id \notin
                            {plantPositions[n].plantId :
                                n \in 1..Len(plantPositions)}}}
              /\ Len(pool) = Cardinality({j \in 1..Len(plants) :
                        plants[j].id \notin
                            {plantPositions[n].plantId :
                                n \in 1..Len(plantPositions)}}))

\* a placed plant has been dropped on the removal zone while another plant
\* stays placed
C18_Witness ==
    /\ last.op = "removeZoneDrop"
    /\ last.plantId \in Ids(unplacedPlants(Closure))
    /\ plantPositions # <<>>

\* C12: whatever the Bed Registry holds, the empty registry included, what
\* the layout's effect has written under 'garden-beds' is read back by
\* loadGardenDataFromStorage as an equal list: same beds, same fields, same
\* order.
C12_BedsRoundTrip ==
    tab = "layout" =>
        /\ localStorage.beds = JSONtext(stringifyBeds(beds))
        /\ loadGardenDataFromStorage(localStorage).beds = beds

\* the registry has been emptied and saved
C12_Witness ==
    /\ tab = "layout"
    /\ beds = <<>>
    /\ last.op = "removeBed"
    /\ localStorage.beds = JSONtext(<<>>)

\* C13: a new-season action with a non-empty plant list appends exactly one
\* report, named after the season being left, holding the plants of that
\* moment and the sum of their harvest totals; with an empty plant list it
\* appends none; no step changes or drops a report already recorded.
C13_NewSeasonReport ==
    /\ [][last'.op = "newSeason" =>
            IF plants # <<>>
            THEN /\ Len(seasonReports') = Len(seasonReports) + 1
                 /\ seasonReports'[Len(seasonReports')].seasonName =
                        currentSeason
                 /\ seasonReports'[Len(seasonReports')].plants = plants
                 /\ seasonReports'[Len(seasonReports')].totalHarvest =
                        SumSeq([i \in 1..Len(plants) |->
                                   plants[i].totalHarvest])
            ELSE seasonReports' = seasonReports]_vars
    /\ [][/\ Len(seasonReports') >= Len(seasonReports)
          /\ SubSeq(seasonReports', 1, Len(seasonReports)) =
                seasonReports]_vars

\* the season of the two default plants has been closed and reported
C13_Witness ==
    /\ last.op = "newSeason"
    /\ currentSeason = "2025 Season"
    /\ Len(seasonReports) = 1
    /\ seasonReports[1].seasonName = DefaultSeason
    /\ seasonReports[1].plants = DefaultPlants
    /\ seasonReports[1].totalHarvest = 28

\* C14: after a new-season action whose season name has no stored plant
\* list, with all updates and effects settled, the active plant list is
\* empty and the list stored under the new season's key is empty.
C14_NewSeasonStartsEmpty ==
    [][(/\ last'.op = "newSeason"
        /\ localStorage.plants[last'.form[1]] = NoItem
        /\ ~quotaExceeded) =>
            /\ plants' = <<>>
            /\ localStorage'.plants[last'.form[1]] = JSONtext(<<>>)]_vars

\* C15: after a new-season action the Position Store of the layout is
\* empty, also when the layout is mounted during the action, and what is
\* stored afterwards under a season's positions key holds, besides what was
\* stored there before, only the position the step itself has created.
C15_NewSeasonClearsPositions ==
    /\ [][last'.op = "newSeason" => plantPositions' = <<>>]_vars
    /\ [][\A n \in SeasonNames :
            (/\ localStorage'.positions[n] # NoItem
             /\ localStorage'.positions[n][1].ok) =>
                LET after == parsePositions(localStorage'.positions[n][1].doc)
                    before == IF /\ localStorage.positions[n] # NoItem
                                 /\ localStorage.positions[n][1].ok
                              THEN parsePositions(
                                      localStorage.positions[n][1].doc)
                              ELSE <<>>
                IN  \A i \in 1..Len(after) :
                       \/ \E j \in 1..Len(before) : before[j] = after[i]
                       \/ /\ last'.op = "placePlant"
                          /\ after[i].plantId = last'.plantId]_vars

\* C19: a write to the store that throws is caught, whichever operation
\* caused it, and the operation ends with the in-memory state it would have
\* with a store that takes the write: no exception leaves a handler, and a
\* new-season action under a full store leaves the season, the plants and
\* the reports as it does under a store with space.
C19_WritesFailureTolerant ==
    /\ [](~uncaughtError)
    /\ [][(quotaExceeded /\ last'.op = "newSeason") =>
            LET c == [Closure EXCEPT !.quotaExceeded = FALSE]
                asIf == IndexEffects(c, createNewGarden(c, c, last'.form[1],
                                                        now))
            IN  /\ currentSeason' = asIf.currentSeason
                /\ plants' = asIf.plants
                /\ seasonReports' = asIf.seasonReports]_vars

\* C20: when the layout is mounted and the stored value of the beds, of the
\* positions or of the settings is missing or is not JSON, the layout starts
\* with the default of that collection: the beds bed-1 and bed-2, no
\* position, a garden of 10 m x 8 m with the boundaries shown.
C20_LoadFallsBackToDefaults ==
    [][(last'.op = "switchTab" /\ tab' = "layout") =>
        /\ ItemKind(localStorage.beds) # "stored" => beds' = DefaultBeds
        /\ ItemKind(localStorage.positions[getCurrentSeason(localStorage)])
              # "stored" => plantPositions' = <<>>
        /\ ItemKind(localStorage.settings) # "stored" =>
              /\ gardenWidth' = M(10)
              /\ gardenHeight' = M(8)
              /\ showBoundaries' = TRUE]_vars

\* the layout has been mounted over a beds item that is not JSON, next to
\* stored settings, and shows the two default beds
C20_Witness ==
    /\ last.op = "switchTab"
    /\ tab = "layout"
    /\ last.form[1] = "malformed"
    /\ last.form[3] = "stored"
    /\ beds = DefaultBeds
    /\ localStorage.beds = JSONtext(stringifyBeds(DefaultBeds))

\* C16: a bed added to the Bed Registry gets an id no other bed has, and,
\* the caller having passed coordinates, is stored with the caller's (x, y).
C16_AddBedKeepsCallerPosition ==
    [][(last'.op = "submitBeds" /\ last'.form[1].name # "") =>
        LET rnds == CHOOSE r \in RandomSuffixes : TRUE
            cells == handleSubmit(Closure, Closure, last'.form[1], now,
                                  rnds)[2]
            base == Len(beds)
        IN  /\ Len(beds') = base + Len(cells)
            /\ \A i \in 1..Len(cells) :
                  /\ \A j \in 1..Len(beds') :
                        beds'[j].id = beds'[base + i].id => j = base + i
                  /\ beds'[base + i].x = M(cells[i][1])
                  /\ beds'[base + i].y = M(cells[i][2])]_vars

\* C17: committing a rename whose text is empty or blank changes no name;
\* committing any other text gives the trimmed text as name to the one bed
\* or plant under edit and changes nothing else; either way the edit state
\* is cleared.
C17_RenameCommit ==
    /\ [][last'.op = "commitBedName" =>
            /\ editingBedId' = null
            /\ editingBedName' = ""
            /\ plants' = plants
            /\ IF trim(editingBedName) = "" THEN beds' = beds
               ELSE \E k \in 1..Len(beds) :
                       /\ beds[k].id = editingBedId
                       /\ beds' = [beds EXCEPT
                                      ![k].name = trim(editingBedName)]]_vars
    /\ [][last'.op = "commitPlantName" =>
            /\ editingPlantId' = null
            /\ editingPlantName' = ""
            /\ beds' = beds
            /\ IF trim(editingPlantName) = "" THEN plants' = plants
               ELSE \E k \in 1..Len(plants) :
                       /\ plants[k].id = editingPlantId
                       /\ plants' = [plants EXCEPT
                                        ![k].name =
                                            trim(editingPlantName)]]_vars

\* C21: a bed whose total space width * height is 0 has utilization 0 in the
\* statistics entry of the bed and on its card under Manage Beds
C21_ZeroSpaceUtilizationIsZero ==
    \A k \in 1..Len(beds) :
        beds[k].width * beds[k].height = 0 =>
            /\ bedUtilization(Closure, beds[k]).utilized = Frac(0, 1)
            /\ tab = "layout" =>
                  getBedUtilization(Closure, beds[k]).percentage = Frac(0, 1)

\* the statistics entry alone is guarded
C21_StatsUtilizationIsZero ==
    \A k \in 1..Len(beds) :
        beds[k].width * beds[k].height = 0 =>
            bedUtilization(Closure, beds[k]).utilized = Frac(0, 1)

\* C22: the x and y a bed placement by click stores are integers (whole
\* numbers of metres), for every bed size the form accepts and every garden
\* size the boundary inputs accept
C22_PlacedCoordinatesAreIntegers ==
    last.op = "placeBed" =>
        \A i \in 1..Len(beds) : beds[i].id = last.bedId =>
            /\ beds[i].x % CellPx = 0
            /\ beds[i].y % CellPx = 0

\* a garden size within the limits of the boundary inputs
SizeInRange(size) == M(1) <= size /\ size <= M(50)

\* C23: a change or blur event of the boundary inputs leaves a garden width
\* and height that were in [1, 50] in [1, 50]; and after a blur event the
\* size of the input that lost focus is in [1, 50] whatever was loaded
C23_BoundaryStaysInRange ==
    /\ [][last'.op \in {"gardenWidth", "gardenHeight", "gardenWidthBlur",
                        "gardenHeightBlur"} =>
            /\ SizeInRange(gardenWidth) => SizeInRange(gardenWidth')
            /\ SizeInRange(gardenHeight) => SizeInRange(gardenHeight')]_vars
    /\ [](last.op = "gardenWidthBlur" => SizeInRange(gardenWidth))
    /\ [](last.op = "gardenHeightBlur" => SizeInRange(gardenHeight))

\* a width of 60 m loaded from the store, brought to 50 m by a blur, next to
\* a height still out of range
C23_Witness ==
    /\ last.op = "gardenWidthBlur"
    /\ last.form[1].num > M(50)
    /\ gardenWidth = M(50)
    /\ ~SizeInRange(gardenHeight)

\* C24: one accepted submit of the bed form passes onAddBed one cell per
\* bed (the scan has ended), the cells are pairwise distinct, none is the
\* (x, y) of a bed already in the registry, every cell has 0 <= x <= 8 and
\* y >= 0, and the beds already in the registry are left as they were
C24_SubmitCellsAreFree ==
    [][(last'.op = "submitBeds" /\ last'.form[1].name # "") =>
        LET cells == last'.at
            N == IF last'.form[1].useBulkMode THEN last'.form[1].quantity
                 ELSE 1
        IN  /\ Len(cells) = N
            /\ \A i, j \in 1..N : i # j => cells[i] # cells[j]
            /\ \A i \in 1..N, k \in 1..Len(beds) :
                  <<M(cells[i][1]), M(cells[i][2])>> # <<beds[k].x, beds[k].y>>
            /\ \A i \in 1..N :
                  /\ 0 <= cells[i][1] /\ cells[i][1] <= WrapColumn
                  /\ cells[i][2] >= 0
            /\ Len(beds') >= Len(beds)
            /\ SubSeq(beds', 1, Len(beds)) = beds]_vars

\* a batch of two beside a row of eight placed beds: the first bed is given
\* the last column of row 0 and the second the first cell of row 1
C24_Witness ==
    /\ last.op = "submitBeds"
    /\ last.at = <<<<WrapColumn, 0>>, <<0, 1>>>>
    /\ Len(beds) = 10

\* C25: a click on the placed bed that is selected (placement mode 'bed')
\* deselects it and changes the (x, y) of no bed
C25_ReclickOnlyDeselects ==
    [][(/\ last'.op = "clickBed"
        /\ selectedBed = last'.bedId
        /\ placementMode = "bed") =>
        /\ selectedBed' = null
        /\ Len(beds') = Len(beds)
        /\ \A i \in 1..Len(beds) :
              beds'[i].x = beds[i].x /\ beds'[i].y = beds[i].y]_vars

\* C26: selectedBed is null or the id of a bed of the Bed Registry; after a
\* bed is removed by one of its delete buttons it is not selected
C26_SelectedBedInRegistry ==
    selectedBed = null \/ selectedBed \in Ids(beds)

\* C27: at most one of selectedPlant and selectedBed is set, and
\* placementMode is 'plant' exactly when a plant is selected, 'bed' exactly
\* when a bed is selected, and null exactly when neither is
C27_SelectionMatchesMode ==
    /\ selectedPlant = null \/ selectedBed = null
    /\ placementMode = "plant" <=> selectedPlant # null
    /\ placementMode = "bed" <=> selectedBed # null
    /\ placementMode = null <=> (selectedPlant = null /\ selectedBed = null)

\* an unplaced bed selected on its card after a plant was placed by click:
\* bed placement mode, and no plant selected
C27_Witness ==
    /\ last.op = "selectBed"
    /\ selectedBed = last.bedId
    /\ placementMode = "bed"
    /\ selectedPlant = null
    /\ plantPositions # <<>>

\* C28: when the layout is mounted over a stored bed list and a positions
\* or settings value that is not JSON, the layout starts with the stored
\* beds, and the save effects of the mount leave the stored bed list as it
\* was
C28_MalformedKeyLeavesBeds ==
    [][(/\ last'.op = "switchTab"
        /\ tab' = "layout"
        /\ ItemKind(localStorage.beds) = "stored"
        /\ \/ ItemKind(localStorage.positions[getCurrentSeason(localStorage)])
                 = "malformed"
           \/ ItemKind(localStorage.settings) = "malformed") =>
        /\ beds' = parseBeds(localStorage.beds[1].doc)
        /\ localStorage'.beds = localStorage.beds]_vars

\* C29: when the main page is mounted, every key garden-plants-S that held
\* a plant list before holds the same list once the mount effects have
\* settled, whichever season is stored as current
C29_MountKeepsStoredPlants ==
    [][last'.op = "reload" =>
        \A n \in SeasonNames :
            ItemKind(localStorage.plants[n]) = "stored" =>
                localStorage'.plants[n] = localStorage.plants[n]]_vars

\* the list of the season stored as current does survive the mount
C29_MountKeepsCurrentSeasonPlants ==
    [][last'.op = "reload" =>
        LET n == getCurrentSeason(localStorage)
        IN  ItemKind(localStorage.plants[n]) = "stored" =>
                localStorage'.plants[n] = localStorage.plants[n]]_vars

\* C30: a harvest accepted by a harvest prompt leaves every plant's
\* totalHarvest at least at its previous value and at least at 0, and
\* changes the totalHarvest of the harvested plant only
C30_HarvestNeverDecreases ==
    [][last'.op = "harvest" =>
        /\ Len(plants') = Len(plants)
        /\ \A i \in 1..Len(plants) :
              /\ plants'[i].totalHarvest >= plants[i].totalHarvest
              /\ plants'[i].totalHarvest >= 0
              /\ plants[i].id # last'.plantId =>
                    plants'[i].totalHarvest = plants[i].totalHarvest]_vars

====
